---------------------------- MODULE Spec2Model ----------------------------
(***************************************************************************)
(* The chat client's view of one generation session: the React state of    *)
(* useChat (src/src/contexts/auth-context.tsx) and the WebSocket message   *)
(* handler that updates it                                                 *)
(* (src/src/routes/chat/utils/handle-websocket-message.ts).                *)
(*                                                                         *)
(* One step of the model is the handling of one server message: the whole  *)
(* handler, with every state setter it calls, followed by the render that  *)
(* brings filesRef / phaseTimelineRef / projectStagesRef up to date, so    *)
(* that getFiles(), getPhaseTimeline() and getProjectStages() read the     *)
(* state as it was when the handler started.  The server is not            *)
(* constrained: any message may arrive at any time, in any order.          *)
(*                                                                         *)
(* bootstrapFiles, query, totalFiles, the preview-refresh counter and the  *)
(* debug / terminal callbacks are written by the handler but read by no    *)
(* property below; they are not part of the modelled state.                *)
(***************************************************************************)
EXTENDS Integers, Sequences, FiniteSets, TLC

VARIABLES
    urlChatId,        \* "new" or "existing": the chatId prop of useChat
    pc,               \* position of init(): "init", "streaming", "connected"
    activityState,    \* useState<ActivityState>
    files,            \* useState<FileType[]>
    phaseTimeline,    \* useState<PhaseTimelineItem[]>
    projectStages,    \* useState<ProjectStage[]>, as stage id -> status
    messages,         \* useState<ChatMessage[]>, as the set of conversation ids
    blueprint,        \* useState<BlueprintType>
    isRedeployReady,  \* useState(false)
    previewUrl,       \* useState<string>
    lastMsg,          \* the message the handler was last called with, and
                      \* whether validatePhaseMessage accepted it
    stoppedFrom,      \* history: the ActivityState that was active when the
                      \* last generation_stopped was handled
    handled,          \* number of server messages handled so far
    isDeploying,      \* useState(false)
    deploymentTimeout,\* deploymentTimeoutRef: the pending timeout, with the
                      \* isDeploying its callback closed over
    deploysInFlight,  \* history: the 'deploy' commands sent on the socket
                      \* since the last completion, error or timeout reset
    shouldRefreshPreview, \* useState(0): the counter that reloads the preview
    refreshTimers,    \* the 1 s timers of phase_implemented that still run
    \* the agent (worker/agents/core), during one executeReviewCycle call
    agentMode,        \* this.state.agentMode: "deterministic" or "smart"
    cyclePc,          \* position of executeReviewCycle
    attempts,         \* path -> regenerations of the file in this cycle
    toFix,            \* the files the last review asked to regenerate
    hasErrors,        \* the files marked hasErrors
    result,           \* const result = await super.executeReviewCycle()
    returned,         \* the value executeReviewCycle returned
    fileManager,      \* this.fileManager: path -> contents of the file
    log,              \* what smartEnhancementCycle did, in order: its
                      \* broadcasts, saves and deployments
    enhanceInput,     \* history: the review result and the enhancement
                      \* outcomes smartEnhancementCycle ran with
    \* SmartCodeReviewOperation
    fileCount,        \* context.allFiles.length
    userPrompt,       \* what the last execute put into its inference call:
                      \* {{fileCount}}, {{sizeCategory}}, reasoning_effort
    \* the socket connection of useChat
    connectionStatus, \* connectionStatus.current
    retryCount,       \* retryCount.current
    connectAttemptId, \* connectAttemptIdRef.current; the socket of attempt
                      \* connectAttemptId is the `websocket` state
    shouldReconnect,  \* shouldReconnectRef.current
    sockets,          \* attempt id -> the socket connectWithRetry created:
                      \* its readyState, its connectionTimeout and the
                      \* commands sent on it
    retryTimeouts,    \* retryTimeouts.current: the timers of the scheduled
                      \* redials, oldest first
    toClose,          \* the replaced sockets the cleanup of the [websocket]
                      \* effect has not closed yet
    messageQueue,     \* messageQueue.current
    processing,       \* processing.current
    processingWs,     \* the socket processQueue is running with
    throttles,        \* the THROTTLE_MS waits of processMessage that run
    arrived,          \* history: the messages received, in arrival order
    handledLog        \* history: the messages the handler was called with,
                      \* in order, each with the socket it was given

deployVars == <<isDeploying, deploymentTimeout, deploysInFlight>>

refreshVars == <<shouldRefreshPreview, refreshTimers>>

clientVars == <<urlChatId, pc, activityState, files, phaseTimeline,
                projectStages, messages, blueprint, isRedeployReady,
                previewUrl, lastMsg, stoppedFrom, handled, deployVars,
                refreshVars>>

promptVars == <<fileCount, userPrompt>>

agentVars == <<agentMode, cyclePc, attempts, toFix, hasErrors, result,
               returned, fileManager, log, enhanceInput, promptVars>>

connVars == <<connectionStatus, retryCount, connectAttemptId, shouldReconnect,
              sockets, retryTimeouts, toClose, messageQueue, processing,
              processingWs, throttles, arrived, handledLog>>

vars == <<clientVars, agentVars, connVars>>

-----------------------------------------------------------------------------
(* Bounds of the model *)

\* generation_stopped wraps the current state once more each time it is
\* handled; the model stops wrapping at this depth.
MaxPauseDepth == 2

\* The number of server messages of a session
MaxMessages == 4

\* Inputs of the model
Paths == {"a.ts", "b.ts"}
PhaseNames == {"P1", "P2"}
Undefined == "undefined"

-----------------------------------------------------------------------------
(* ActivityState: the tagged union *)

Idle == [type |-> "idle"]
Bootstrapping == [type |-> "bootstrapping"]
GeneratingBlueprint == [type |-> "generating_blueprint"]
ThinkingNextPhase == [type |-> "thinking_next_phase"]
ImplementingPhase(n) == [type |-> "implementing_phase", phaseName |-> n]
ValidatingPhase(n) == [type |-> "validating_phase", phaseName |-> n]
DeployingPreview == [type |-> "deploying_preview"]
Paused(s) == [type |-> "paused", pausedFrom |-> s]
Completed == [type |-> "completed"]

ActivityTags ==
    {"idle", "bootstrapping", "generating_blueprint", "thinking_next_phase",
     "implementing_phase", "validating_phase", "deploying_preview", "paused",
     "completed"}

\* phaseName values the handler can produce: a phase's name, or 'resumed'
ActivityPhaseNames == PhaseNames \cup {"resumed"}

RECURSIVE PauseDepth(_)
PauseDepth(s) == IF s.type = "paused" THEN 1 + PauseDepth(s.pausedFrom) ELSE 0

\* A value of the type ActivityState (of any pause depth)
RECURSIVE IsActivityState(_)
IsActivityState(s) ==
    /\ "type" \in DOMAIN s
    /\ s.type \in ActivityTags
    /\ CASE s.type \in {"implementing_phase", "validating_phase"} ->
              /\ DOMAIN s = {"type", "phaseName"}
              /\ s.phaseName \in ActivityPhaseNames
         [] s.type = "paused" ->
              /\ DOMAIN s = {"type", "pausedFrom"}
              /\ IsActivityState(s.pausedFrom)
         [] OTHER -> DOMAIN s = {"type"}

\* Derived flags of useChat
isGenerating == activityState.type \in {"implementing_phase", "validating_phase"}
isThinking == activityState.type = "thinking_next_phase"
isBootstrapping == activityState.type = "bootstrapping"
isGeneratingBlueprint == activityState.type = "generating_blueprint"
isPreviewDeploying == activityState.type = "deploying_preview"
isGenerationPaused == activityState.type = "paused"

-----------------------------------------------------------------------------
(* Project stages *)

StageIds == {"bootstrap", "blueprint", "code", "validate", "fix"}

initialStages ==
    [s \in StageIds |-> IF s = "bootstrap" THEN "active" ELSE "pending"]

updateStage(prev, stageId, status) == [prev EXCEPT ![stageId] = status]

completeStages(prev, ids) ==
    [s \in StageIds |-> IF s \in ids THEN "completed" ELSE prev[s]]

-----------------------------------------------------------------------------
(* Chat messages *)

\* sendMessage: addOrUpdateMessage keyed by conversationId
sendMessage(prev, conversationId) == prev \cup {conversationId}

-----------------------------------------------------------------------------
(* File list helpers (file-state-helpers) *)

HasPath(fs, p) == \E i \in 1..Len(fs) : fs[i].filePath = p

setFileGenerating(prev, p) ==
    IF HasPath(prev, p)
    THEN [i \in 1..Len(prev) |->
            IF prev[i].filePath = p
            THEN [prev[i] EXCEPT !.isGenerating = TRUE] ELSE prev[i]]
    ELSE Append(prev, [filePath |-> p, isGenerating |-> TRUE])

setFileCompleted(prev, p) ==
    IF HasPath(prev, p)
    THEN [i \in 1..Len(prev) |->
            IF prev[i].filePath = p
            THEN [prev[i] EXCEPT !.isGenerating = FALSE] ELSE prev[i]]
    ELSE Append(prev, [filePath |-> p, isGenerating |-> FALSE])

setAllFilesCompleted(prev) ==
    [i \in 1..Len(prev) |-> [prev[i] EXCEPT !.isGenerating = FALSE]]

updatePhaseFileStatus(prev, p, status) ==
    [i \in 1..Len(prev) |->
        [prev[i] EXCEPT !.files =
            [j \in 1..Len(prev[i].files) |->
                IF prev[i].files[j].path = p
                THEN [prev[i].files[j] EXCEPT !.status = status]
                ELSE prev[i].files[j]]]]

AnyGenerating(fs) == \E i \in 1..Len(fs) : fs[i].isGenerating

-----------------------------------------------------------------------------
(* The handler and the values it closes over *)

\* connectWithRetry is memoised on [retryCount, maxRetries, retryTimeouts],
\* which never change, so the 'message' listener it installs calls the
\* processQueue -> processMessage -> handleWebSocketMessage of the first
\* render.  The plain values of HandleMessageDeps are therefore those of the
\* first render; only the setters and the ref-backed getters are live.
deps ==
    [blueprint |-> Undefined,
     isInitialStateRestored |-> FALSE,
     activityState |-> Bootstrapping,
     previewUrl |-> Undefined]

\* const isGenerating = activityState.type === ... (of the handler)
handlerIsGenerating ==
    deps.activityState.type \in {"implementing_phase", "validating_phase"}

PHASE_MESSAGES ==
    {"generation_started", "phase_validating", "phase_validated",
     "phase_implemented"}

\* validatePhaseMessage without its 'phase_implemented' case
validatePhaseMessageNoGeneratingCheck(messageType, currentBlueprint, currentFiles) ==
    CASE messageType = "generation_started" -> currentBlueprint /= Undefined
      [] messageType = "phase_validating" -> Len(currentFiles) /= 0
      [] OTHER -> TRUE

\* validatePhaseMessage without its 'phase_validating' case
validatePhaseMessageNoFilesCheck(messageType, currentBlueprint, currentFiles) ==
    CASE messageType = "generation_started" -> currentBlueprint /= Undefined
      [] messageType = "phase_implemented" -> ~AnyGenerating(currentFiles)
      [] OTHER -> TRUE

\* validatePhaseMessage(...).valid
validatePhaseMessage(messageType, currentBlueprint, currentFiles) ==
    CASE messageType = "generation_started" -> currentBlueprint /= Undefined
      [] messageType = "phase_validating" -> Len(currentFiles) /= 0
      [] messageType = "phase_implemented" -> ~AnyGenerating(currentFiles)
      [] OTHER -> TRUE

\* The phase gate at the head of the handler
Accepts(messageType) ==
    messageType \in PHASE_MESSAGES =>
        validatePhaseMessage(messageType, deps.blueprint, files)

NoState == [type |-> "none"]

\* The message passes the gate and reaches the switch
Handled(messageType) ==
    /\ lastMsg' = [type |-> messageType, valid |-> TRUE]
    /\ handled' = handled + 1
    /\ UNCHANGED <<agentVars, connVars>>

\* ... in a case that leaves the deployment state alone
Received(messageType) ==
    /\ Handled(messageType)
    /\ UNCHANGED deployVars

\* A rejection that returns only after the chat message has been sent
RejectedAfterSendMessage(messageType) ==
    /\ lastMsg' = [type |-> messageType, valid |-> FALSE]
    /\ handled' = handled + 1
    /\ messages' = sendMessage(messages, messageType)
    /\ UNCHANGED <<urlChatId, refreshVars, pc, activityState, files, phaseTimeline,
                   projectStages, blueprint, isRedeployReady, previewUrl,
                   stoppedFrom>>
    /\ UNCHANGED <<agentVars, deployVars, connVars>>

\* if (!validation.valid) { logger.warn(...); return; }
Rejected(messageType) ==
    /\ lastMsg' = [type |-> messageType, valid |-> FALSE]
    /\ handled' = handled + 1
    /\ UNCHANGED <<urlChatId, refreshVars, pc, activityState, files, phaseTimeline,
                   projectStages, messages, blueprint, isRedeployReady,
                   previewUrl, stoppedFrom>>
    /\ UNCHANGED <<agentVars, deployVars, connVars>>

\* The socket is open and the session's messages are not used up
Connected == pc = "connected" /\ handled < MaxMessages

-----------------------------------------------------------------------------
(* The socket connection: connectWithRetry and handleConnectionFailure *)

\* The sockets created in a session, and the messages received in it
MaxAttempts == 3
MaxArrivals == 2

\* const maxRetries = 5
maxRetries == 5

\* const maxDelay = 30000
maxDelay == 30000

Min(a, b) == IF a < b THEN a ELSE b

\* Math.pow(2, retryCount.current) * 1000
retryDelay(count) == (2 ^ count) * 1000

\* A delay without the cap
actualDelayUncapped(count) == retryDelay(count)

\* Math.min(retryDelay, maxDelay)
actualDelay(count) == Min(retryDelay(count), maxDelay)

\* new WebSocket(wsUrl), with the 30 s connectionTimeout armed and the
\* arguments its listeners close over
NewSocket(disableGenerate, isRetry) ==
    [readyState |-> "connecting",
     connectionTimeout |-> TRUE,
     sent |-> <<>>,
     disableGenerate |-> disableGenerate,
     isRetry |-> isRetry]

\* sendWebSocketMessage(ws, type): the command is sent when the socket is open
sendWebSocketMessage(socks, ws, type) ==
    IF socks[ws].readyState = "open"
    THEN [socks EXCEPT ![ws].sent = Append(@, type)]
    ELSE socks

\* ws.close().  The close event of an open socket follows; a socket that
\* was still connecting fails, and its error event and close event follow.
close(socks, ws) ==
    IF socks[ws].readyState = "connecting"
    THEN [socks EXCEPT ![ws].readyState = "failing"]
    ELSE IF socks[ws].readyState = "open"
    THEN [socks EXCEPT ![ws].readyState = "closing"]
    ELSE socks

\* connectWithRetry(wsUrl, { disableGenerate, isRetry }): a new socket
\* becomes the `websocket` state and the attempt id is incremented.  The
\* socket it replaces is closed later, by the cleanup of the effect.
connectWithRetry(disableGenerate, isRetry) ==
    /\ connectAttemptId < MaxAttempts
    /\ connectionStatus' = IF isRetry THEN "retrying" ELSE "connecting"
    /\ sockets' = Append(sockets, NewSocket(disableGenerate, isRetry))
    /\ connectAttemptId' = connectAttemptId + 1
    /\ toClose' =
         IF connectAttemptId > 0
            /\ sockets[connectAttemptId].readyState \in {"connecting", "open"}
         THEN toClose \cup {connectAttemptId}
         ELSE toClose

\* handleConnectionFailure(wsUrl, disableGenerate, reason)
handleConnectionFailure(disableGenerate) ==
    /\ connectionStatus' = "failed"
    /\ IF retryCount >= maxRetries
       THEN /\ messages' = sendMessage(messages, "websocket_failed")
            /\ UNCHANGED <<retryCount, retryTimeouts>>
       ELSE /\ retryCount' = retryCount + 1
            /\ messages' = sendMessage(messages, "websocket_retrying")
            /\ retryTimeouts' =
                 Append(retryTimeouts,
                        [count |-> retryCount + 1,
                         delay |-> actualDelay(retryCount + 1),
                         disableGenerate |-> disableGenerate,
                         state |-> "pending"])

-----------------------------------------------------------------------------
(* init() of useChat: the session before the socket is connected *)

\* A chunk of the blueprint stream of a new chat
BlueprintChunk ==
    /\ urlChatId = "new"
    /\ pc \in {"init", "streaming"}
    /\ pc' = "streaming"
    /\ messages' = sendMessage(messages, "main")
    /\ IF pc = "init"
       THEN /\ activityState' = GeneratingBlueprint
            /\ projectStages' =
                 updateStage(updateStage(projectStages, "bootstrap", "completed"),
                             "blueprint", "active")
       ELSE UNCHANGED <<activityState, projectStages>>
    /\ blueprint' = "blueprint"
    /\ UNCHANGED <<urlChatId, refreshVars, files, phaseTimeline, isRedeployReady,
                   previewUrl, lastMsg, stoppedFrom, handled>>
    /\ UNCHANGED <<agentVars, deployVars, connVars>>

\* The stream of a new chat ends: connectWithRetry(result.websocketUrl)
BlueprintDone ==
    /\ urlChatId = "new"
    /\ pc \in {"init", "streaming"}
    /\ pc' = "connected"
    /\ projectStages' = updateStage(projectStages, "blueprint", "completed")
    /\ activityState' = Idle
    /\ messages' = sendMessage(messages, "main")
    /\ connectWithRetry(FALSE, FALSE)
    /\ UNCHANGED <<urlChatId, refreshVars, files, phaseTimeline, blueprint,
                   isRedeployReady, previewUrl, lastMsg, stoppedFrom, handled>>
    /\ UNCHANGED <<retryCount, shouldReconnect, retryTimeouts, messageQueue,
                   processing, processingWs, throttles, arrived, handledLog>>
    /\ UNCHANGED <<agentVars, deployVars>>

\* An existing chat: connectToAgent, then connectWithRetry
ConnectExisting ==
    /\ urlChatId = "existing"
    /\ pc = "init"
    /\ pc' = "connected"
    /\ activityState' = Idle
    /\ messages' = sendMessage(sendMessage(messages, "fetching-chat"),
                               "resuming-chat")
    /\ connectWithRetry(TRUE, FALSE)
    /\ UNCHANGED <<urlChatId, refreshVars, files, phaseTimeline, projectStages, blueprint,
                   isRedeployReady, previewUrl, lastMsg, stoppedFrom, handled>>
    /\ UNCHANGED <<retryCount, shouldReconnect, retryTimeouts, messageQueue,
                   processing, processingWs, throttles, arrived, handledLog>>
    /\ UNCHANGED <<agentVars, deployVars>>

-----------------------------------------------------------------------------
(* Server messages: one action per case of the handler's switch *)

\* case 'file_generating'
FileGenerating(p) ==
    /\ Connected
    /\ files' = setFileGenerating(files, p)
    /\ Received("file_generating")
    /\ UNCHANGED <<urlChatId, refreshVars, pc, activityState, phaseTimeline, projectStages,
                   messages, blueprint, isRedeployReady, previewUrl,
                   stoppedFrom>>

\* case 'file_generated'
FileGenerated(p) ==
    /\ Connected
    /\ files' = setFileCompleted(files, p)
    /\ phaseTimeline' = updatePhaseFileStatus(phaseTimeline, p, "completed")
    /\ Received("file_generated")
    /\ UNCHANGED <<urlChatId, refreshVars, pc, activityState, projectStages, messages,
                   blueprint, isRedeployReady, previewUrl, stoppedFrom>>

\* case 'file_regenerated'
FileRegenerated(p) ==
    /\ Connected
    /\ isRedeployReady' = TRUE
    /\ files' = setFileCompleted(files, p)
    /\ phaseTimeline' = updatePhaseFileStatus(phaseTimeline, p, "completed")
    /\ Received("file_regenerated")
    /\ UNCHANGED <<urlChatId, refreshVars, pc, activityState, projectStages, messages,
                   blueprint, previewUrl, stoppedFrom>>

\* file_regenerating that also re-enters the implementing state
FileRegeneratingReenters(p) ==
    /\ Connected
    /\ files' = setFileGenerating(files, p)
    /\ phaseTimeline' = updatePhaseFileStatus(phaseTimeline, p, "generating")
    /\ activityState' = ImplementingPhase("resumed")
    /\ Received("file_regenerating")
    /\ UNCHANGED <<urlChatId, refreshVars, pc, projectStages, messages, blueprint,
                   isRedeployReady, previewUrl, stoppedFrom>>

\* case 'file_regenerating'
FileRegenerating(p) ==
    /\ Connected
    /\ files' = setFileGenerating(files, p)
    /\ phaseTimeline' = updatePhaseFileStatus(phaseTimeline, p, "generating")
    /\ Received("file_regenerating")
    /\ UNCHANGED <<urlChatId, refreshVars, pc, activityState, projectStages, messages,
                   blueprint, isRedeployReady, previewUrl, stoppedFrom>>

\* case 'generation_started'
GenerationStarted ==
    /\ Connected
    /\ IF ~Accepts("generation_started")
       THEN Rejected("generation_started")
       ELSE /\ projectStages' = updateStage(projectStages, "code", "active")
            /\ activityState' = Idle
            /\ Received("generation_started")
            /\ UNCHANGED <<urlChatId, refreshVars, pc, files, phaseTimeline, messages,
                           blueprint, isRedeployReady, previewUrl,
                           stoppedFrom>>

\* case 'generation_complete'
GenerationComplete ==
    /\ Connected
    /\ isRedeployReady' = TRUE
    /\ files' = setAllFilesCompleted(files)
    /\ projectStages' = completeStages(projectStages, {"code", "validate", "fix"})
    /\ messages' = sendMessage(messages, "generation-complete")
    /\ activityState' = Completed
    /\ Received("generation_complete")
    /\ UNCHANGED <<urlChatId, refreshVars, pc, phaseTimeline, blueprint, previewUrl,
                   stoppedFrom>>

\* case 'deployment_started'
DeploymentStarted ==
    /\ Connected
    /\ activityState' = DeployingPreview
    /\ Received("deployment_started")
    /\ UNCHANGED <<urlChatId, refreshVars, pc, files, phaseTimeline, projectStages,
                   messages, blueprint, isRedeployReady, previewUrl,
                   stoppedFrom>>

\* case 'deployment_completed'
DeploymentCompleted ==
    /\ Connected
    /\ activityState' = Completed
    /\ previewUrl' = "preview"
    /\ Received("deployment_completed")
    /\ UNCHANGED <<urlChatId, refreshVars, pc, files, phaseTimeline, projectStages,
                   messages, blueprint, isRedeployReady, stoppedFrom>>

\* case 'deployment_failed'
DeploymentFailed ==
    /\ Connected
    /\ activityState' = Idle
    /\ Received("deployment_failed")
    /\ UNCHANGED <<urlChatId, refreshVars, pc, files, phaseTimeline, projectStages,
                   messages, blueprint, isRedeployReady, previewUrl,
                   stoppedFrom>>

\* case 'code_reviewed'
CodeReviewed ==
    /\ Connected
    /\ messages' = sendMessage(messages, "code_reviewed")
    /\ Received("code_reviewed")
    /\ UNCHANGED <<urlChatId, refreshVars, pc, activityState, files, phaseTimeline,
                   projectStages, blueprint, isRedeployReady, previewUrl,
                   stoppedFrom>>

\* case 'code_reviewing': the message's lint, typecheck, runtime and client
\* error counts
CodeReviewing(lint, typecheck, runtime, client) ==
    /\ Connected
    /\ LET totalIssues == lint + typecheck + runtime
           validating == updateStage(projectStages, "validate", "active")
       IN  projectStages' =
             IF totalIssues > 0 THEN updateStage(validating, "fix", "active")
             ELSE validating
    /\ Received("code_reviewing")
    /\ UNCHANGED <<urlChatId, refreshVars, pc, activityState, files, phaseTimeline,
                   messages, blueprint, isRedeployReady, previewUrl,
                   stoppedFrom>>

\* case 'phase_generating'
PhaseGenerating ==
    /\ Connected
    /\ projectStages' =
         updateStage(updateStage(projectStages, "validate", "completed"),
                     "fix", "completed")
    /\ messages' = sendMessage(messages, "phase_generating")
    /\ activityState' = ThinkingNextPhase
    /\ Received("phase_generating")
    /\ UNCHANGED <<urlChatId, refreshVars, pc, files, phaseTimeline, blueprint,
                   isRedeployReady, previewUrl, stoppedFrom>>

\* case 'phase_generated'
PhaseGenerated ==
    /\ Connected
    /\ messages' = sendMessage(messages, "phase_generated")
    /\ activityState' = Idle
    /\ Received("phase_generated")
    /\ UNCHANGED <<urlChatId, refreshVars, pc, files, phaseTimeline, projectStages,
                   blueprint, isRedeployReady, previewUrl, stoppedFrom>>

\* The phase carried by phase_implementing: a name and its files' paths
NoPhase == [name |-> Undefined, files |-> <<>>]
PhaseFileLists == {<<"a.ts">>, <<"a.ts", "b.ts">>}
PhaseInputs == {[name |-> n, files |-> fs] : n \in PhaseNames, fs \in PhaseFileLists}

\* case 'phase_implementing'
PhaseImplementing(phase) ==
    /\ Connected
    /\ messages' = sendMessage(messages, "phase_implementing")
    /\ projectStages' = updateStage(projectStages, "code", "active")
    /\ IF phase /= NoPhase
       THEN /\ activityState' = ImplementingPhase(phase.name)
            /\ phaseTimeline' =
                 IF \E i \in 1..Len(phaseTimeline) : phaseTimeline[i].name = phase.name
                 THEN phaseTimeline
                 ELSE Append(phaseTimeline,
                        [name |-> phase.name,
                         files |-> [j \in 1..Len(phase.files) |->
                                      [path |-> phase.files[j],
                                       status |-> "generating"]],
                         status |-> "generating"])
       ELSE UNCHANGED <<activityState, phaseTimeline>>
    /\ Received("phase_implementing")
    /\ UNCHANGED <<urlChatId, refreshVars, pc, files, blueprint, isRedeployReady,
                   previewUrl, stoppedFrom>>

\* lastPhase.status = status, on a copy of the timeline
setLastPhaseStatus(prev, status) ==
    IF Len(prev) > 0
    THEN [prev EXCEPT ![Len(prev)].status = status]
    ELSE prev

\* case 'phase_validating'
PhaseValidating ==
    /\ Connected
    /\ IF ~Accepts("phase_validating")
       THEN Rejected("phase_validating")
       ELSE /\ messages' = sendMessage(messages, "phase_validating")
            /\ projectStages' = updateStage(projectStages, "validate", "active")
            /\ activityState' =
                 IF Len(phaseTimeline) > 0
                 THEN ValidatingPhase(phaseTimeline[Len(phaseTimeline)].name)
                 ELSE activityState
            /\ phaseTimeline' = setLastPhaseStatus(phaseTimeline, "validating")
            /\ Received("phase_validating")
            /\ UNCHANGED <<urlChatId, refreshVars, pc, files, blueprint, isRedeployReady,
                           previewUrl, stoppedFrom>>

\* case 'phase_validated'
PhaseValidated ==
    /\ Connected
    /\ IF ~Accepts("phase_validated")
       THEN Rejected("phase_validated")
       ELSE /\ messages' = sendMessage(messages, "phase_validated")
            /\ projectStages' = updateStage(projectStages, "validate", "completed")
            /\ activityState' = Idle
            /\ Received("phase_validated")
            /\ UNCHANGED <<urlChatId, refreshVars, pc, files, phaseTimeline, blueprint,
                           isRedeployReady, previewUrl, stoppedFrom>>

\* The last phase and all its files marked completed
completeLastPhase(prev) ==
    IF Len(prev) > 0
    THEN [prev EXCEPT ![Len(prev)] =
            [@ EXCEPT !.status = "completed",
                      !.files = [j \in 1..Len(@) |->
                                   [@[j] EXCEPT !.status = "completed"]]]]
    ELSE prev

\* case 'phase_implemented'; hasPhase: the message carries a phase
PhaseImplemented(hasPhase) ==
    /\ Connected
    /\ IF ~Accepts("phase_implemented")
       THEN Rejected("phase_implemented")
       ELSE /\ messages' = sendMessage(messages, "phase_implemented")
            /\ projectStages' = updateStage(projectStages, "code", "completed")
            /\ isRedeployReady' = TRUE
            /\ activityState' = Idle
            /\ phaseTimeline' =
                 IF hasPhase THEN completeLastPhase(phaseTimeline)
                 ELSE phaseTimeline
            /\ refreshTimers' = refreshTimers + 1
            /\ Received("phase_implemented")
            /\ UNCHANGED <<urlChatId, shouldRefreshPreview, pc, files,
                           blueprint, previewUrl, stoppedFrom>>

\* The callback of the timer of phase_implemented, one second later
PreviewRefreshTimeout ==
    /\ refreshTimers > 0
    /\ refreshTimers' = refreshTimers - 1
    /\ shouldRefreshPreview' = shouldRefreshPreview + 1
    /\ UNCHANGED <<urlChatId, pc, activityState, files, phaseTimeline,
                   projectStages, messages, blueprint, isRedeployReady,
                   previewUrl, lastMsg, stoppedFrom, handled, deployVars>>
    /\ UNCHANGED <<agentVars, connVars>>

\* A pause that does not remember the state it suspends
pauseActivityForgets(prev) == Paused(Idle)

\* setActivityState(prev => ({ type: 'paused', pausedFrom: prev }))
pauseActivity(prev) == Paused(prev)

\* case 'generation_stopped'
GenerationStopped ==
    /\ Connected
    /\ PauseDepth(activityState) < MaxPauseDepth
    /\ activityState' = pauseActivity(activityState)
    /\ messages' = sendMessage(messages, "generation_stopped")
    /\ stoppedFrom' = activityState
    /\ Received("generation_stopped")
    /\ UNCHANGED <<urlChatId, refreshVars, pc, files, phaseTimeline, projectStages,
                   blueprint, isRedeployReady, previewUrl>>

\* A resume without the fallback: prev.pausedFrom of a state that is not
\* paused is undefined
resumeActivityNoFallback(prev) ==
    IF prev.type = "paused" THEN prev.pausedFrom ELSE [type |-> Undefined]

\* setActivityState(prev => prev.type === 'paused' ? prev.pausedFrom : ...)
resumeActivity(prev) ==
    IF prev.type = "paused" THEN prev.pausedFrom
    ELSE ImplementingPhase("resumed")

\* case 'generation_resumed'
GenerationResumed ==
    /\ Connected
    /\ activityState' = resumeActivity(activityState)
    /\ messages' = sendMessage(messages, "generation_resumed")
    /\ stoppedFrom' = NoState
    /\ Received("generation_resumed")
    /\ UNCHANGED <<urlChatId, refreshVars, pc, files, phaseTimeline, projectStages,
                   blueprint, isRedeployReady, previewUrl>>

\* The agent state carried by cf_agent_state: blueprint, the paths of
\* generatedFilesMap (in key order), generatedPhases and shouldBeGenerating
GeneratedFilesMaps == {<<>>, <<"a.ts">>}
GeneratedPhases ==
    {<<>>,
     <<[name |-> "P1", completed |-> TRUE, files |-> <<"a.ts">>],
       [name |-> "P2", completed |-> FALSE, files |-> <<"a.ts", "b.ts">>]>>}
AgentStates ==
    [blueprint : {Undefined, "blueprint"},
     generatedFilesMap : GeneratedFilesMaps,
     generatedPhases : GeneratedPhases,
     shouldBeGenerating : BOOLEAN]

InSeq(x, sq) == \E i \in 1..Len(sq) : sq[i] = x

\* The timeline rebuilt from state.generatedPhases
restoredTimeline(state) ==
    [i \in 1..Len(state.generatedPhases) |->
        LET phase == state.generatedPhases[i] IN
        [name |-> phase.name,
         files |-> [j \in 1..Len(phase.files) |->
                      [path |-> phase.files[j],
                       status |-> IF InSeq(phase.files[j], state.generatedFilesMap)
                                  THEN "completed" ELSE "generating"]],
         status |-> IF phase.completed THEN "completed" ELSE "generating"]]

\* The stage updates of cf_agent_state, in the order the handler queues them
agentStateStages(prev, state) ==
    LET hasFiles == Len(state.generatedFilesMap) > 0
        s1 == IF ~deps.isInitialStateRestored
              THEN LET a == IF state.blueprint /= Undefined /\ deps.blueprint = Undefined
                            THEN updateStage(prev, "blueprint", "completed") ELSE prev
                       b == updateStage(a, "bootstrap", "completed")
                       c == IF state.blueprint /= Undefined
                            THEN updateStage(b, "blueprint", "completed") ELSE b
                   IN  IF hasFiles
                       THEN updateStage(updateStage(c, "code", "completed"),
                                        "validate", "completed")
                       ELSE c
              ELSE prev
    IN  IF state.shouldBeGenerating
        THEN updateStage(s1, "code", "active")
        ELSE IF prev["code"] = "active" /\ ~handlerIsGenerating /\ hasFiles
             THEN updateStage(updateStage(s1, "code", "completed"),
                              "validate", "completed")
             ELSE s1

\* case 'cf_agent_state'
CfAgentState(state) ==
    /\ Connected
    /\ blueprint' =
         IF ~deps.isInitialStateRestored /\ state.blueprint /= Undefined
            /\ deps.blueprint = Undefined
         THEN state.blueprint ELSE blueprint
    /\ files' =
         IF ~deps.isInitialStateRestored /\ Len(files) = 0
         THEN [i \in 1..Len(state.generatedFilesMap) |->
                 [filePath |-> state.generatedFilesMap[i], isGenerating |-> FALSE]]
         ELSE files
    /\ phaseTimeline' =
         IF ~deps.isInitialStateRestored /\ Len(state.generatedPhases) > 0
            /\ Len(phaseTimeline) = 0
         THEN restoredTimeline(state) ELSE phaseTimeline
    /\ projectStages' = agentStateStages(projectStages, state)
    /\ Received("cf_agent_state")
    /\ UNCHANGED <<urlChatId, refreshVars, pc, activityState, messages, isRedeployReady,
                   previewUrl, stoppedFrom>>

-----------------------------------------------------------------------------
(* Deployment to Cloudflare *)

\* The deploy requests of a session
MaxDeployRequests == 3

\* deploymentTimeoutRef.current === null
NoTimeout == [armed |-> FALSE, isDeploying |-> FALSE]

\* useEffect(() => { if (!isDeploying && deploymentTimeoutRef.current)
\*     clearTimeout(...) }, [isDeploying]): runs when isDeploying changed
clearTimeoutEffect(before, after, timeout) ==
    IF before /= after /\ ~after THEN NoTimeout ELSE timeout

\* handleDeployToCloudflare(instanceId).  The command is sent when the
\* socket is open; the timeout callback closes over the isDeploying of the
\* render the request was made in.  When the command cannot be sent the
\* catch block sets isDeploying and arms no timeout.
HandleDeployToCloudflare ==
    /\ deploysInFlight < MaxDeployRequests
    /\ IF pc = "connected"
       THEN /\ deploysInFlight' = deploysInFlight + 1
            /\ deploymentTimeout' = [armed |-> TRUE, isDeploying |-> isDeploying]
            /\ UNCHANGED <<isDeploying, isRedeployReady, messages>>
       ELSE /\ isDeploying' = TRUE
            /\ isRedeployReady' = FALSE
            /\ messages' = sendMessage(messages, "deployment_error")
            /\ deploymentTimeout' =
                   clearTimeoutEffect(isDeploying, TRUE, deploymentTimeout)
            /\ UNCHANGED deploysInFlight
    /\ UNCHANGED <<urlChatId, refreshVars, pc, activityState, files, phaseTimeline,
                   projectStages, blueprint, previewUrl, lastMsg, stoppedFrom,
                   handled>>
    /\ UNCHANGED <<agentVars, connVars>>

\* The 60 s timeout fires: if (isDeploying) { reset, message }, ref = null
DeploymentTimeout ==
    /\ deploymentTimeout.armed
    /\ IF deploymentTimeout.isDeploying
       THEN /\ isDeploying' = FALSE
            /\ isRedeployReady' = FALSE
            /\ messages' = sendMessage(messages, "deployment_timeout")
            /\ deploysInFlight' = 0
       ELSE UNCHANGED <<isDeploying, isRedeployReady, messages, deploysInFlight>>
    /\ deploymentTimeout' = NoTimeout
    /\ UNCHANGED <<urlChatId, refreshVars, pc, activityState, files, phaseTimeline,
                   projectStages, blueprint, previewUrl, lastMsg, stoppedFrom,
                   handled>>
    /\ UNCHANGED <<agentVars, connVars>>

\* case 'cloudflare_deployment_started'
CloudflareDeploymentStarted ==
    /\ Connected
    /\ isDeploying' = TRUE
    /\ messages' = sendMessage(messages, "cloudflare_deployment_started")
    /\ deploymentTimeout' =
           clearTimeoutEffect(isDeploying, TRUE, deploymentTimeout)
    /\ Handled("cloudflare_deployment_started")
    /\ UNCHANGED <<urlChatId, refreshVars, pc, activityState, files, phaseTimeline,
                   projectStages, blueprint, isRedeployReady, previewUrl,
                   stoppedFrom, deploysInFlight>>

\* case 'cloudflare_deployment_completed'
CloudflareDeploymentCompleted ==
    /\ Connected
    /\ isDeploying' = FALSE
    /\ isRedeployReady' = FALSE
    /\ messages' = sendMessage(messages, "cloudflare_deployment_completed")
    /\ deploymentTimeout' =
           clearTimeoutEffect(isDeploying, FALSE, deploymentTimeout)
    /\ deploysInFlight' = 0
    /\ Handled("cloudflare_deployment_completed")
    /\ UNCHANGED <<urlChatId, refreshVars, pc, activityState, files, phaseTimeline,
                   projectStages, blueprint, previewUrl, stoppedFrom>>

\* cloudflare_deployment_error that leaves the redeploy button as it was
CloudflareDeploymentErrorKeepsRedeploy ==
    /\ Connected
    /\ isDeploying' = FALSE
    /\ messages' = sendMessage(messages, "cloudflare_deployment_error")
    /\ deploymentTimeout' =
           clearTimeoutEffect(isDeploying, FALSE, deploymentTimeout)
    /\ deploysInFlight' = 0
    /\ Handled("cloudflare_deployment_error")
    /\ UNCHANGED <<urlChatId, refreshVars, pc, activityState, files, phaseTimeline,
                   projectStages, blueprint, isRedeployReady, previewUrl,
                   stoppedFrom>>
\* case 'cloudflare_deployment_error'
CloudflareDeploymentError ==
    /\ Connected
    /\ isDeploying' = FALSE
    /\ isRedeployReady' = TRUE
    /\ messages' = sendMessage(messages, "cloudflare_deployment_error")
    /\ deploymentTimeout' =
           clearTimeoutEffect(isDeploying, FALSE, deploymentTimeout)
    /\ deploysInFlight' = 0
    /\ Handled("cloudflare_deployment_error")
    /\ UNCHANGED <<urlChatId, refreshVars, pc, activityState, files, phaseTimeline,
                   projectStages, blueprint, previewUrl, stoppedFrom>>

-----------------------------------------------------------------------------
(* Socket events, the retry timers and the message queue *)

\* The client state a connection event leaves alone
sessionVars == <<urlChatId, refreshVars, pc, activityState, files, phaseTimeline,
                 projectStages, blueprint, isRedeployReady, previewUrl,
                 lastMsg, stoppedFrom, handled, deployVars>>

queueVars == <<messageQueue, processing, processingWs, throttles, arrived,
               handledLog>>

\* What handleWebSocketMessage writes in its cf_agent_state case
handlerVars == <<blueprint, files, phaseTimeline, projectStages, lastMsg,
                 handled, sockets>>

\* The agent states a server reports in cf_agent_state: a session that has
\* generated nothing yet and is not generating, and a session that is in
\* the middle of its generation
ConnAgentStates ==
    {state \in AgentStates :
        /\ state.blueprint = "blueprint"
        /\ state.generatedPhases = <<>>
        /\ state.shouldBeGenerating = (state.generatedFilesMap /= <<>>)}

\* The commands of a cf_agent_state case that leaves the resume to the
\* server
agentStateCommandsNoResume(prev, state) ==
    LET hasFiles == Len(state.generatedFilesMap) > 0
    IN  IF ~deps.isInitialStateRestored /\ hasFiles /\ urlChatId /= "new"
        THEN <<"preview">> ELSE <<>>
\* The commands of the cf_agent_state case, in the order they are sent
agentStateCommands(prev, state) ==
    LET hasFiles == Len(state.generatedFilesMap) > 0
        restored == IF ~deps.isInitialStateRestored /\ hasFiles
                       /\ urlChatId /= "new"
                    THEN <<"preview">> ELSE <<>>
    IN  IF state.shouldBeGenerating
        THEN restored \o <<"generate_all">>
        ELSE IF prev["code"] = "active" /\ ~handlerIsGenerating /\ hasFiles
                /\ deps.previewUrl = Undefined
             THEN restored \o <<"preview">>
             ELSE restored

RECURSIVE sendAll(_, _, _)
sendAll(socks, ws, commands) ==
    IF commands = <<>> THEN socks
    ELSE sendAll(sendWebSocketMessage(socks, ws, Head(commands)), ws,
                 Tail(commands))

\* handleWebSocketMessage(ws, message) for a cf_agent_state message
handleWebSocketMessage(ws, message) ==
    LET state == message.state IN
    /\ blueprint' =
         IF ~deps.isInitialStateRestored /\ state.blueprint /= Undefined
            /\ deps.blueprint = Undefined
         THEN state.blueprint ELSE blueprint
    /\ files' =
         IF ~deps.isInitialStateRestored /\ Len(files) = 0
         THEN [i \in 1..Len(state.generatedFilesMap) |->
                 [filePath |-> state.generatedFilesMap[i], isGenerating |-> FALSE]]
         ELSE files
    /\ phaseTimeline' =
         IF ~deps.isInitialStateRestored /\ Len(state.generatedPhases) > 0
            /\ Len(phaseTimeline) = 0
         THEN restoredTimeline(state) ELSE phaseTimeline
    /\ projectStages' = agentStateStages(projectStages, state)
    /\ sockets' = sendAll(sockets, ws, agentStateCommands(projectStages, state))
    /\ lastMsg' = [type |-> "cf_agent_state", valid |-> TRUE]
    /\ handled' = handled + 1

\* A cf_agent_state message that carries no state
NoAgentState == [state |-> Undefined]

\* The handler throws: `state.blueprint` of a message without state is a
\* TypeError, and nothing in the handler catches it
Throws(message) == message.state = NoAgentState

\* The entry of handledLog for a call of the handler: the message, the
\* socket, and whether the wait of an earlier message was still running
HandlerCall(ws, message, running) ==
    [id |-> message.id, ws |-> ws,
     shouldBeGenerating |->
         IF Throws(message) THEN FALSE ELSE message.state.shouldBeGenerating,
     concurrent |-> running > 0]

\* processQueue that does not look at processing.current
processQueueUnguarded(ws, queue, busy, running) ==
    IF queue = <<>>
    THEN /\ messageQueue' = queue
         /\ processing' = busy
         /\ throttles' = running
         /\ UNCHANGED <<processingWs, handledLog, handlerVars>>
    ELSE /\ processing' = TRUE
         /\ processingWs' = ws
         /\ messageQueue' = Tail(queue)
         /\ handledLog' = Append(handledLog, HandlerCall(ws, Head(queue), running))
         /\ IF Throws(Head(queue))
            THEN /\ throttles' = running
                 /\ UNCHANGED handlerVars
            ELSE /\ throttles' = running + 1
                 /\ handleWebSocketMessage(ws, Head(queue))

\* processQueue(ws), called with the queue, processing.current and the
\* number of running THROTTLE_MS waits as they are at the call: the head
\* of the queue is shifted and handled, and the wait of processMessage
\* starts.  When the handler throws, the promise of processMessage is
\* rejected before the wait starts, and the `then` callback never runs.
processQueue(ws, queue, busy, running) ==
    IF busy \/ queue = <<>>
    THEN /\ messageQueue' = queue
         /\ processing' = busy
         /\ throttles' = running
         /\ UNCHANGED <<processingWs, handledLog, handlerVars>>
    ELSE /\ processing' = TRUE
         /\ processingWs' = ws
         /\ messageQueue' = Tail(queue)
         /\ handledLog' = Append(handledLog, HandlerCall(ws, Head(queue), running))
         /\ IF Throws(Head(queue))
            THEN /\ throttles' = running
                 /\ UNCHANGED handlerVars
            ELSE /\ throttles' = running + 1
                 /\ handleWebSocketMessage(ws, Head(queue))

\* 'open' listener of the socket of attempt ws
SocketOpen(ws) ==
    /\ ws \in 1..connectAttemptId
    /\ sockets[ws].readyState = "connecting"
    /\ LET opened == [sockets EXCEPT ![ws].readyState = "open"] IN
       IF ~shouldReconnect
       THEN /\ sockets' = close(opened, ws)
            /\ UNCHANGED <<connectionStatus, retryCount, retryTimeouts,
                           messages>>
       ELSE IF ws /= connectAttemptId
       THEN /\ sockets' = opened
            /\ UNCHANGED <<connectionStatus, retryCount, retryTimeouts,
                           messages>>
       ELSE /\ connectionStatus' = "connected"
            /\ retryCount' = 0
            /\ retryTimeouts' = <<>>
            /\ messages' = IF sockets[ws].isRetry
                           THEN sendMessage(messages, "websocket_reconnected")
                           ELSE messages
            /\ sockets' =
                 LET cleared == [opened EXCEPT ![ws].connectionTimeout = FALSE]
                     asked == sendWebSocketMessage(cleared, ws,
                                                   "get_conversation_state")
                 IN  IF ~sockets[ws].disableGenerate /\ urlChatId = "new"
                     THEN sendWebSocketMessage(asked, ws, "generate_all")
                     ELSE asked
    /\ UNCHANGED <<connectAttemptId, shouldReconnect, toClose, queueVars>>
    /\ UNCHANGED <<sessionVars, agentVars>>

\* 'error' listener: the close event of the socket follows
SocketError(ws) ==
    /\ ws \in 1..connectAttemptId
    /\ sockets[ws].readyState \in {"connecting", "open", "failing"}
    /\ sockets' = [sockets EXCEPT ![ws].readyState = "closing",
                                  ![ws].connectionTimeout = FALSE]
    /\ IF ws = connectAttemptId /\ shouldReconnect
       THEN handleConnectionFailure(sockets[ws].disableGenerate)
       ELSE UNCHANGED <<connectionStatus, retryCount, retryTimeouts, messages>>
    /\ UNCHANGED <<connectAttemptId, shouldReconnect, toClose, queueVars>>
    /\ UNCHANGED <<sessionVars, agentVars>>

\* 'close' listener
SocketClose(ws) ==
    /\ ws \in 1..connectAttemptId
    /\ sockets[ws].readyState \in {"open", "closing"}
    /\ sockets' = [sockets EXCEPT ![ws].readyState = "closed",
                                  ![ws].connectionTimeout = FALSE]
    /\ IF ws = connectAttemptId /\ shouldReconnect
       THEN handleConnectionFailure(sockets[ws].disableGenerate)
       ELSE UNCHANGED <<connectionStatus, retryCount, retryTimeouts, messages>>
    /\ UNCHANGED <<connectAttemptId, shouldReconnect, toClose, queueVars>>
    /\ UNCHANGED <<sessionVars, agentVars>>

\* The 30 s connectionTimeout of the socket of attempt ws fires.  For a
\* superseded attempt, or a socket that is no longer connecting, the
\* callback returns without doing anything.
ConnectionTimeout(ws) ==
    /\ ws \in 1..connectAttemptId
    /\ sockets[ws].connectionTimeout
    /\ IF ws = connectAttemptId /\ sockets[ws].readyState = "connecting"
       THEN /\ sockets' = close([sockets EXCEPT ![ws].connectionTimeout = FALSE],
                                ws)
            /\ handleConnectionFailure(sockets[ws].disableGenerate)
       ELSE UNCHANGED <<sockets, connectionStatus, retryCount, retryTimeouts,
                        messages>>
    /\ UNCHANGED <<connectAttemptId, shouldReconnect, toClose, queueVars>>
    /\ UNCHANGED <<sessionVars, agentVars>>

\* The timers of retryTimeouts that have neither fired nor been cleared
PendingRetries ==
    {i \in 1..Len(retryTimeouts) : retryTimeouts[i].state = "pending"}

\* The oldest pending retry timer fires: connectWithRetry(wsUrl,
\* { disableGenerate, isRetry: true }).  The delays grow with each failure,
\* so the timers fire in the order they were set.
RetryTimeout ==
    /\ PendingRetries /= {}
    /\ LET i == CHOOSE j \in PendingRetries :
                    \A k \in PendingRetries : j <= k
       IN  /\ retryTimeouts' = [retryTimeouts EXCEPT ![i].state = "fired"]
           /\ connectWithRetry(retryTimeouts[i].disableGenerate, TRUE)
    /\ UNCHANGED <<retryCount, shouldReconnect, queueVars, messages>>
    /\ UNCHANGED <<sessionVars, agentVars>>

\* The sockets of the set closed by the client
closeAll(socks, set) ==
    [i \in 1..Len(socks) |->
        IF i \in set THEN close(socks, i)[i] ELSE socks[i]]

\* Cleanup of useEffect(() => () => websocket?.close(), [websocket]) after
\* the render that follows setWebsocket: the replaced socket is closed
CloseWebsocketEffect ==
    /\ toClose /= {}
    /\ LET ws == CHOOSE j \in toClose : \A k \in toClose : j <= k IN
       /\ sockets' = close(sockets, ws)
       /\ toClose' = toClose \ {ws}
    /\ UNCHANGED <<connectionStatus, retryCount, connectAttemptId,
                   shouldReconnect, retryTimeouts, queueVars, messages>>
    /\ UNCHANGED <<sessionVars, agentVars>>

\* The component unmounts: the cleanups of the mount effect and of the
\* [websocket] effect run.  init() may still be awaiting its request or
\* the blueprint stream, and connects when that returns.
Unmount ==
    /\ shouldReconnect
    /\ shouldReconnect' = FALSE
    /\ retryTimeouts' = <<>>
    /\ sockets' = closeAll(sockets, toClose \cup {connectAttemptId})
    /\ toClose' = {}
    /\ UNCHANGED <<connectionStatus, retryCount, connectAttemptId, queueVars, messages>>
    /\ UNCHANGED <<sessionVars, agentVars>>

\* 'message' listener of the socket of attempt ws: the parsed message is
\* pushed on the queue and processQueue(ws) is called
SocketMessage(ws, state) ==
    /\ ws \in 1..connectAttemptId
    /\ sockets[ws].readyState = "open"
    /\ Len(arrived) < MaxArrivals
    /\ LET message == [id |-> Len(arrived) + 1, from |-> ws, state |-> state]
       IN  /\ arrived' = Append(arrived, [id |-> message.id, from |-> ws])
           /\ processQueue(ws, Append(messageQueue, message), processing,
                        throttles)
    /\ UNCHANGED <<connectionStatus, retryCount, connectAttemptId,
                   shouldReconnect, retryTimeouts, toClose>>
    /\ UNCHANGED <<urlChatId, refreshVars, pc, activityState, messages, isRedeployReady,
                   previewUrl, stoppedFrom, deployVars>>
    /\ UNCHANGED agentVars

\* The THROTTLE_MS wait of processMessage ends: processing.current = false,
\* and processQueue(ws) again when the queue is not empty
ThrottleDone ==
    /\ throttles > 0
    /\ processQueue(processingWs, messageQueue, FALSE, throttles - 1)
    /\ UNCHANGED arrived
    /\ UNCHANGED <<connectionStatus, retryCount, connectAttemptId,
                   shouldReconnect, retryTimeouts, toClose>>
    /\ UNCHANGED <<urlChatId, refreshVars, pc, activityState, messages, isRedeployReady,
                   previewUrl, stoppedFrom, deployVars>>
    /\ UNCHANGED agentVars

-----------------------------------------------------------------------------
(* The agent's review cycle *)

\* agentMode?: 'deterministic' | 'smart'
AgentModes == {"deterministic", "smart"}

\* The configured maximum of regeneration attempts per file
MaxRegenerationAttempts == 2

\* executeReviewCycle that calls itself where it should call
\* super.executeReviewCycle()
ExecuteReviewCycleCallsItself(mode) ==
    /\ cyclePc = "idle"
    /\ agentMode' = mode
    /\ cyclePc' = "idle"
    /\ UNCHANGED <<attempts, toFix, hasErrors, result, returned, fileManager,
                   log, enhanceInput>>
    /\ UNCHANGED <<clientVars, connVars, promptVars>>

\* SmartCodeGeneratorAgent.executeReviewCycle is called on a session whose
\* state.agentMode is mode, and calls super.executeReviewCycle()
ExecuteReviewCycle(mode) ==
    /\ cyclePc = "idle"
    /\ agentMode' = mode
    /\ cyclePc' = "reviewing"
    /\ UNCHANGED <<attempts, toFix, hasErrors, result, returned, fileManager,
                   log, enhanceInput>>
    /\ UNCHANGED <<clientVars, connVars, promptVars>>

\* The base cycle reviews the files; withIssues are the files the review
\* finds issues in.  No issue: the cycle ends clean.  A file with issues
\* that has used up its attempts is marked hasErrors and the cycle ends.
\* Otherwise the files with issues are regenerated.
CodeReview(withIssues) ==
    /\ cyclePc = "reviewing"
    /\ LET exhausted == {p \in withIssues : attempts[p] >= MaxRegenerationAttempts}
       IN  IF withIssues = {}
           THEN /\ cyclePc' = "reviewed"
                /\ result' = "clean"
                /\ UNCHANGED <<toFix, hasErrors>>
           ELSE IF exhausted /= {}
           THEN /\ cyclePc' = "reviewed"
                /\ result' = "degraded"
                /\ hasErrors' = hasErrors \cup exhausted
                /\ UNCHANGED toFix
           ELSE /\ cyclePc' = "regenerating"
                /\ toFix' = withIssues
                /\ UNCHANGED <<hasErrors, result>>
    /\ UNCHANGED <<agentMode, attempts, returned, fileManager, log,
                   enhanceInput>>
    /\ UNCHANGED <<clientVars, connVars, promptVars>>

\* The files with issues are regenerated, then reviewed again
RegenerateFiles ==
    /\ cyclePc = "regenerating"
    /\ attempts' = [p \in Paths |->
                      IF p \in toFix THEN attempts[p] + 1 ELSE attempts[p]]
    /\ toFix' = {}
    /\ cyclePc' = "reviewing"
    /\ UNCHANGED <<agentMode, hasErrors, result, returned, fileManager, log,
                   enhanceInput>>
    /\ UNCHANGED <<clientVars, connVars, promptVars>>

\* super.executeReviewCycle() has returned:
\* if (this.state.agentMode === 'smart') await this.smartEnhancementCycle()
\* else return result
AfterBaseReviewCycle ==
    /\ cyclePc = "reviewed"
    /\ IF agentMode = "smart"
       THEN cyclePc' = "enhancing" /\ UNCHANGED returned
       ELSE cyclePc' = "returned" /\ returned' = result
    /\ UNCHANGED <<agentMode, attempts, toFix, hasErrors, result, fileManager,
                   log, enhanceInput>>
    /\ UNCHANGED <<clientVars, connVars, promptVars>>

-----------------------------------------------------------------------------
(* The smart enhancement cycle *)

\* The paths a review result may name: the files of the session and a path
\* the File Manager no longer holds
ReviewPaths == Paths \cup {"gone.ts"}

\* reviewResult.systematicPatterns, each pattern with its affectedFiles
\* (an absent list behaves as the empty one)
PatternLists ==
    { <<>>,
      <<[affectedFiles |-> <<"a.ts">>]>>,
      <<[affectedFiles |-> <<"gone.ts", "a.ts">>]>>,
      <<[affectedFiles |-> <<"a.ts">>], [affectedFiles |-> <<"a.ts", "b.ts">>]>> }

\* reviewResult.filesToEnhance
IndividualLists ==
    { <<>>,
      <<[filePath |-> "b.ts", requireCodeChanges |-> TRUE]>>,
      <<[filePath |-> "a.ts", requireCodeChanges |-> FALSE]>>,
      <<[filePath |-> "gone.ts", requireCodeChanges |-> TRUE],
        [filePath |-> "b.ts", requireCodeChanges |-> TRUE]>>,
      <<[filePath |-> "a.ts", requireCodeChanges |-> TRUE],
        [filePath |-> "b.ts", requireCodeChanges |-> TRUE]>> }

\* The results smartCodeReview.execute may return
ReviewResults ==
    [enhancementsFound : BOOLEAN,
     systematicPatterns : PatternLists,
     filesToEnhance : IndividualLists]

NoInput == [review |-> "none"]

\* this.fileManager.getGeneratedFile(filePath) finds a file
getGeneratedFile(filePath) == filePath \in DOMAIN fileManager

\* A pattern's list that ends at the first path that is not found
RECURSIVE patternFilesStopAtMissing(_)
patternFilesStopAtMissing(patterns) ==
    IF patterns = <<>> THEN <<>>
    ELSE LET affected == Head(patterns).affectedFiles
             found == SelectSeq(affected, getGeneratedFile)
         IN  IF Len(found) < Len(affected) THEN <<>>
             ELSE found \o patternFilesStopAtMissing(Tail(patterns))

\* for (const pattern of reviewResult.systematicPatterns)
\*     for (const filePath of pattern.affectedFiles) ...
RECURSIVE patternFiles(_)
patternFiles(patterns) ==
    IF patterns = <<>> THEN <<>>
    ELSE SelectSeq(Head(patterns).affectedFiles, getGeneratedFile)
             \o patternFiles(Tail(patterns))

\* if (!fileToEnhance.requireCodeChanges) continue; if (!file) continue;
needsEnhancement(fileToEnhance) ==
    /\ fileToEnhance.requireCodeChanges
    /\ getGeneratedFile(fileToEnhance.filePath)

\* for (const fileToEnhance of reviewResult.filesToEnhance) ...
individualFiles(list) ==
    LET kept == SelectSeq(list, needsEnhancement)
    IN  [i \in 1..Len(kept) |-> kept[i].filePath]

\* The filesToEnhance array, as the paths of its entries; nothing is
\* collected when the review found no enhancement
filesToEnhance(review) ==
    IF review.enhancementsFound
    THEN patternFiles(review.systematicPatterns)
             \o individualFiles(review.filesToEnhance)
    ELSE <<>>

\* Entries of the log
Broadcast(type, payload) ==
    [op |-> "broadcast", type |-> type, payload |-> payload]

saveGeneratedFile(filePath) ==
    [op |-> "save", type |-> "saveGeneratedFile",
     payload |-> [filePath |-> filePath]]

deployToSandbox(enhancedFiles) ==
    [op |-> "deploy", type |-> "deployToSandbox",
     payload |-> [files |-> enhancedFiles]]

\* Promise.all in the place of Promise.allSettled: one rejection loses all
allOrNothing(promises, fulfilled) ==
    IF \A i \in 1..Len(promises) : i \in fulfilled THEN promises ELSE <<>>

\* Promise.allSettled(promises), filtered to the fulfilled results;
\* fulfilled is the set of the indices whose enhancement succeeded
RECURSIVE allSettled(_, _)
allSettled(promises, fulfilled) ==
    IF promises = <<>> THEN <<>>
    ELSE LET n == Len(promises)
         IN  allSettled(SubSeq(promises, 1, n - 1), fulfilled)
                 \o (IF n \in fulfilled THEN <<promises[n]>> ELSE <<>>)

\* for (const { file, ... } of filesToEnhance) broadcast(FILE_ENHANCING)
enhancingEvents(toEnhance) ==
    [i \in 1..Len(toEnhance) |->
        Broadcast("FILE_ENHANCING", [filePath |-> toEnhance[i]])]

\* for (const enhancedFile of enhancedFiles) { save; broadcast }
RECURSIVE saveEnhancedFiles(_)
saveEnhancedFiles(enhancedFiles) ==
    IF enhancedFiles = <<>> THEN <<>>
    ELSE <<saveGeneratedFile(Head(enhancedFiles)),
           Broadcast("FILE_ENHANCED", [filePath |-> Head(enhancedFiles)])>>
             \o saveEnhancedFiles(Tail(enhancedFiles))

\* One deployment for each enhanced file
RECURSIVE deployEachFile(_)
deployEachFile(enhancedFiles) ==
    IF enhancedFiles = <<>> THEN <<>>
    ELSE <<deployToSandbox(<<Head(enhancedFiles)>>)>>
             \o deployEachFile(Tail(enhancedFiles))

\* await this.deployToSandbox(enhancedFiles, false, 'enhance: ...')
deployEnhancedFiles(enhancedFiles) == <<deployToSandbox(enhancedFiles)>>

\* broadcast(SMART_ENHANCED, { filesEnhanced, patternsApplied })
summaryEvent(enhancedFiles, systematicPatternsCount) ==
    Broadcast("SMART_ENHANCED",
              [filesEnhanced |-> Len(enhancedFiles),
               patternsApplied |-> systematicPatternsCount])

\* The end of the cycle without the early return on no enhanced file
applyEnhancementsAlways(enhancedFiles, systematicPatternsCount) ==
    saveEnhancedFiles(enhancedFiles)
        \o deployEnhancedFiles(enhancedFiles)
        \o <<summaryEvent(enhancedFiles, systematicPatternsCount)>>

\* The end of the cycle with the summary broadcast before the deployment
applyEnhancementsSummaryFirst(enhancedFiles, systematicPatternsCount) ==
    IF Len(enhancedFiles) = 0 THEN <<>>
    ELSE saveEnhancedFiles(enhancedFiles)
             \o <<summaryEvent(enhancedFiles, systematicPatternsCount)>>
             \o deployEnhancedFiles(enhancedFiles)
\* if (enhancedFiles.length === 0) return; save, deploy, summary
applyEnhancements(enhancedFiles, systematicPatternsCount) ==
    IF Len(enhancedFiles) = 0 THEN <<>>
    ELSE saveEnhancedFiles(enhancedFiles)
             \o deployEnhancedFiles(enhancedFiles)
             \o <<summaryEvent(enhancedFiles, systematicPatternsCount)>>

\* The broadcasts that open the cycle
reviewEvents(review) ==
    <<Broadcast("SMART_REVIEWING", [message |-> "analyzing"]),
      Broadcast("SMART_REVIEWED",
                [systematicPatternsCount |-> Len(review.systematicPatterns)])>>

\* Everything a cycle that runs to its end does, in order
enhancementLog(review, fulfilled) ==
    LET toEnhance == filesToEnhance(review)
    IN  reviewEvents(review)
            \o enhancingEvents(toEnhance)
            \o applyEnhancements(allSettled(toEnhance, fulfilled),
                                 Len(review.systematicPatterns))

\* What the enhancement of promises[i] resolves to: the file of that path,
\* with the contents this enhancement wrote
enhancedFile(promises, i) ==
    [filePath |-> promises[i], fileContents |-> "enhanced " \o ToString(i)]

\* enhancedFiles: the values of the fulfilled results, in the order of the
\* promises and not in the order in which the enhancements finished
RECURSIVE enhancedResults(_, _)
enhancedResults(promises, fulfilled) ==
    IF promises = <<>> THEN <<>>
    ELSE LET n == Len(promises)
         IN  enhancedResults(SubSeq(promises, 1, n - 1), fulfilled)
                 \o (IF n \in fulfilled
                     THEN <<enhancedFile(promises, n)>> ELSE <<>>)

\* A File Manager that keeps the first contents written after generation
saveFileFirstWins(fm, file) ==
    IF fm[file.filePath] = "generated"
    THEN [fm EXCEPT ![file.filePath] = file.fileContents] ELSE fm

\* FileManager.saveGeneratedFile(file): upsert by path, the record of the
\* path is overwritten in place
saveFile(fm, file) == [fm EXCEPT ![file.filePath] = file.fileContents]

\* The File Manager after the enhanced files are saved: the loop saves
\* them one after the other, each save complete before the next begins
RECURSIVE savedFiles(_)
savedFiles(enhancedFiles) ==
    IF enhancedFiles = <<>> THEN fileManager
    ELSE LET n == Len(enhancedFiles)
         IN  saveFile(savedFiles(SubSeq(enhancedFiles, 1, n - 1)),
                      enhancedFiles[n])

\* smartEnhancementCycle, and the return of executeReviewCycle after it.
\* review is what smartCodeReview.execute returns, unless it throws
\* (reviewThrows); fulfilled are the enhancements that succeed.  Nothing
\* catches what smartCodeReview.execute throws.
SmartEnhancementCycle(review, fulfilled, reviewThrows) ==
    /\ cyclePc = "enhancing"
    /\ fulfilled \subseteq 1..Len(filesToEnhance(review))
    /\ reviewThrows => fulfilled = {}
    /\ enhanceInput' = [review |-> review, fulfilled |-> fulfilled,
                        reviewThrows |-> reviewThrows]
    /\ IF reviewThrows
       THEN /\ log' = <<Broadcast("SMART_REVIEWING", [message |-> "analyzing"])>>
            /\ cyclePc' = "thrown"
            /\ UNCHANGED <<fileManager, returned>>
       ELSE /\ log' = enhancementLog(review, fulfilled)
            /\ fileManager' =
                   savedFiles(enhancedResults(filesToEnhance(review),
                                              fulfilled))
            /\ cyclePc' = "returned"
            /\ returned' = result
    /\ UNCHANGED <<agentMode, attempts, toFix, hasErrors, result>>
    /\ UNCHANGED <<clientVars, connVars, promptVars>>

-----------------------------------------------------------------------------
(* SmartCodeReviewOperation: the prompt of the quality review *)

\* The largest number of files of a project
MaxFiles == 52

NoPrompt == [fileCount |-> 0, sizeCategory |-> "none",
             reasoning_effort |-> "none"]

\* const sizeCategory =
\*     fileCount < 20 ? 'small' : fileCount <= 50 ? 'medium' : 'large'
sizeCategory(n) ==
    IF n < 20 THEN "small" ELSE IF n <= 50 THEN "medium" ELSE "large"

\* reasoning_effort: fileCount > 30 ? 'high' : 'medium'
reasoningEffort(n) == IF n > 30 THEN "high" ELSE "medium"

\* userPromptFormatter(context, filesContext, fileCount): the values that
\* replace {{fileCount}} and {{sizeCategory}}, with the reasoning effort
\* of the call that carries the prompt
userPromptFormatter(n) ==
    [fileCount |-> n, sizeCategory |-> sizeCategory(n),
     reasoning_effort |-> reasoningEffort(n)]

\* A file is added to context.allFiles
FileAdded ==
    /\ fileCount < MaxFiles
    /\ fileCount' = fileCount + 1
    /\ UNCHANGED userPrompt
    /\ UNCHANGED <<agentMode, cyclePc, attempts, toFix, hasErrors, result,
                   returned, fileManager, log, enhanceInput>>
    /\ UNCHANGED <<clientVars, connVars>>

\* SmartCodeReviewOperation.execute up to its inference call
SmartCodeReviewExecute ==
    /\ userPrompt' = userPromptFormatter(fileCount)
    /\ UNCHANGED fileCount
    /\ UNCHANGED <<agentMode, cyclePc, attempts, toFix, hasErrors, result,
                   returned, fileManager, log, enhanceInput>>
    /\ UNCHANGED <<clientVars, connVars>>

-----------------------------------------------------------------------------
(* The session *)

Init ==
    /\ urlChatId \in {"new", "existing"}
    /\ pc = "init"
    /\ activityState = Bootstrapping
    /\ files = <<>>
    /\ phaseTimeline = <<>>
    /\ projectStages = initialStages
    /\ messages = {"main"}
    /\ blueprint = Undefined
    /\ isRedeployReady = FALSE
    /\ previewUrl = Undefined
    /\ lastMsg = [type |-> "none", valid |-> TRUE]
    /\ stoppedFrom = NoState
    /\ handled = 0
    /\ isDeploying = FALSE
    /\ deploymentTimeout = NoTimeout
    /\ deploysInFlight = 0
    /\ shouldRefreshPreview = 0
    /\ refreshTimers = 0
    /\ agentMode = "smart"
    /\ cyclePc = "idle"
    /\ attempts = [p \in Paths |-> 0]
    /\ toFix = {}
    /\ hasErrors = {}
    /\ result = "none"
    /\ returned = "none"
    /\ fileManager = [p \in Paths |-> "generated"]
    /\ log = <<>>
    /\ enhanceInput = NoInput
    /\ fileCount = 0
    /\ userPrompt = NoPrompt
    /\ connectionStatus = "idle"
    /\ retryCount = 0
    /\ connectAttemptId = 0
    /\ shouldReconnect = TRUE
    /\ sockets = <<>>
    /\ retryTimeouts = <<>>
    /\ toClose = {}
    /\ messageQueue = <<>>
    /\ processing = FALSE
    /\ processingWs = 0
    /\ throttles = 0
    /\ arrived = <<>>
    /\ handledLog = <<>>

Next ==
    \/ BlueprintChunk
    \/ BlueprintDone
    \/ ConnectExisting
    \/ \E p \in Paths : FileGenerating(p)
    \/ \E p \in Paths : FileGenerated(p)
    \/ \E p \in Paths : FileRegenerating(p)
    \/ \E p \in Paths : FileRegenerated(p)
    \/ GenerationStarted
    \/ GenerationComplete
    \/ DeploymentStarted
    \/ DeploymentCompleted
    \/ DeploymentFailed
    \/ CodeReviewed
    \/ \E l, t, r, c \in 0..1 : CodeReviewing(l, t, r, c)
    \/ PhaseGenerating
    \/ PhaseGenerated
    \/ \E phase \in PhaseInputs \cup {NoPhase} : PhaseImplementing(phase)
    \/ PhaseValidating
    \/ PhaseValidated
    \/ \E hasPhase \in BOOLEAN : PhaseImplemented(hasPhase)
    \/ GenerationStopped
    \/ GenerationResumed
    \/ \E state \in AgentStates : CfAgentState(state)

Spec == Init /\ [][Next]_vars

\* One call of executeReviewCycle on the agent.  Every step of the cycle is
\* an awaited operation that returns, so the cycle keeps taking steps.
NextReview ==
    \/ \E mode \in AgentModes : ExecuteReviewCycle(mode)
    \/ \E withIssues \in SUBSET Paths : CodeReview(withIssues)
    \/ RegenerateFiles
    \/ AfterBaseReviewCycle
    \/ \E review \in ReviewResults, reviewThrows \in BOOLEAN :
           \E fulfilled \in SUBSET (1..Len(filesToEnhance(review))) :
               SmartEnhancementCycle(review, fulfilled, reviewThrows)

SpecReview == Init /\ [][NextReview]_vars /\ WF_vars(NextReview)

\* The quality review of a project whose files are added one by one
NextScale ==
    \/ FileAdded
    \/ SmartCodeReviewExecute

SpecScale == Init /\ [][NextScale]_vars

\* The phase messages of a session, any of them possibly delivered again,
\* with the file messages that open the phase gate
NextPhases ==
    \/ BlueprintChunk
    \/ BlueprintDone
    \/ ConnectExisting
    \/ \E p \in Paths : FileGenerating(p)
    \/ \E p \in Paths : FileGenerated(p)
    \/ \E phase \in PhaseInputs \cup {NoPhase} : PhaseImplementing(phase)
    \/ PhaseValidating
    \/ PhaseValidated
    \/ \E hasPhase \in BOOLEAN : PhaseImplemented(hasPhase)
    \/ PreviewRefreshTimeout

SpecPhases == Init /\ [][NextPhases]_vars

\* Deployment requests of a session.  The user and the server may stay
\* silent; a timeout that is armed fires.
NextDeploy ==
    \/ BlueprintChunk
    \/ BlueprintDone
    \/ ConnectExisting
    \/ HandleDeployToCloudflare
    \/ DeploymentTimeout
    \/ CloudflareDeploymentStarted
    \/ CloudflareDeploymentCompleted
    \/ CloudflareDeploymentError
    \/ DeploymentStarted
    \/ DeploymentFailed

SpecDeploy == Init /\ [][NextDeploy]_vars /\ WF_vars(DeploymentTimeout)

\* The socket connection of a session that receives no message.  The
\* network and the timers are not constrained, and the component may
\* unmount.
NextRetry ==
    \/ BlueprintChunk
    \/ BlueprintDone
    \/ ConnectExisting
    \/ \E ws \in 1..MaxAttempts : SocketOpen(ws)
    \/ \E ws \in 1..MaxAttempts : SocketError(ws)
    \/ \E ws \in 1..MaxAttempts : SocketClose(ws)
    \/ \E ws \in 1..MaxAttempts : ConnectionTimeout(ws)
    \/ RetryTimeout
    \/ CloseWebsocketEffect
    \/ Unmount

SpecRetry == Init /\ [][NextRetry]_vars

\* The socket connection of a mounted session and the messages received on
\* it.  Every socket opens or fails before its 30 s connectionTimeout;
\* otherwise the network, the server and the retry timers are not
\* constrained.
NextConnect ==
    \/ BlueprintDone
    \/ ConnectExisting
    \/ \E ws \in 1..MaxAttempts : SocketOpen(ws)
    \/ \E ws \in 1..MaxAttempts : SocketError(ws)
    \/ \E ws \in 1..MaxAttempts : SocketClose(ws)
    \/ RetryTimeout
    \/ CloseWebsocketEffect
    \/ \E ws \in 1..MaxAttempts, state \in ConnAgentStates :
           SocketMessage(ws, state)
    \/ ThrottleDone

SpecConnect == Init /\ [][NextConnect]_vars

\* ... in which the timers fire: a THROTTLE_MS wait that runs ends, and a
\* redial that is scheduled is made
SpecConnectLive ==
    /\ Init /\ [][NextConnect]_vars
    /\ WF_vars(ThrottleDone)
    /\ WF_vars(RetryTimeout)

\* The message queue of a session whose server may also send a
\* cf_agent_state without state.  A THROTTLE_MS wait that runs ends.
NextQueue ==
    \/ BlueprintDone
    \/ ConnectExisting
    \/ \E ws \in 1..MaxAttempts : SocketOpen(ws)
    \/ \E ws \in 1..MaxAttempts : SocketError(ws)
    \/ \E ws \in 1..MaxAttempts : SocketClose(ws)
    \/ RetryTimeout
    \/ CloseWebsocketEffect
    \/ \E ws \in 1..MaxAttempts, state \in ConnAgentStates \cup {NoAgentState} :
           SocketMessage(ws, state)
    \/ ThrottleDone

SpecQueue == Init /\ [][NextQueue]_vars /\ WF_vars(ThrottleDone)

-----------------------------------------------------------------------------
(* Properties *)

\* A step that handles one server message
MessageStep == handled' = handled + 1

LastPhase == phaseTimeline[Len(phaseTimeline)]

\* C1: in every reachable state the ActivityState is one well-formed value
\* of the tagged union, and at most one of the derived flags bootstrapping,
\* generating blueprint, thinking, generating, preview-deploying and paused
\* is true.
C1_ExactlyOneActivity ==
    /\ IsActivityState(activityState)
    /\ LET flags == <<isBootstrapping, isGeneratingBlueprint, isThinking,
                      isGenerating, isPreviewDeploying, isGenerationPaused>>
       IN  Cardinality({i \in 1..6 : flags[i]}) <= 1

\* deployment_started arrived while the last phase was being validated: the
\* state shows the deployment alone
C1_Witness ==
    /\ activityState = DeployingPreview
    /\ Len(phaseTimeline) > 0
    /\ LastPhase.status = "validating"

\* The transitions of the specified machine
SpecifiedTransition(s, t) ==
    \/ s.type = "idle" /\ t.type = "thinking_next_phase"
    \/ s.type = "thinking_next_phase" /\ t.type = "implementing_phase"
    \/ s.type = "implementing_phase" /\ t.type = "validating_phase"
    \/ s.type = "validating_phase"
         /\ t.type \in {"implementing_phase", "thinking_next_phase",
                        "deploying_preview", "completed"}
    \/ s.type \notin {"paused", "completed"} /\ t = Paused(s)
    \/ s.type = "paused" /\ t = s.pausedFrom

MessageTarget(messageType, s, timeline) ==
    CASE messageType \in {"generation_started", "phase_generated",
                          "phase_validated", "phase_implemented",
                          "deployment_failed"} -> {Idle}
      [] messageType = "phase_generating" -> {ThinkingNextPhase}
      [] messageType = "phase_implementing" ->
            {ImplementingPhase(n) : n \in PhaseNames}
      [] messageType = "phase_validating" ->
            IF Len(timeline) > 0
            THEN {ValidatingPhase(timeline[Len(timeline)].name)} ELSE {}
      [] messageType = "deployment_started" -> {DeployingPreview}
      [] messageType \in {"generation_complete", "deployment_completed"} ->
            {Completed}
      [] messageType = "generation_stopped" -> {Paused(s)}
      [] messageType = "generation_resumed" ->
            IF s.type = "paused" THEN {s.pausedFrom}
            ELSE {ImplementingPhase("resumed")}
      [] OTHER -> {}

C3_NoCompletionWhileGenerating ==
    (lastMsg.type = "phase_implemented" /\ lastMsg.valid)
        => ~AnyGenerating(files)

\* phase_implemented was applied to a session that has files: the code stage
\* is completed and so are the last phase and its files
C3_Witness ==
    /\ lastMsg.type = "phase_implemented" /\ lastMsg.valid
    /\ Len(files) > 0
    /\ projectStages["code"] = "completed"
    /\ activityState = Idle
    /\ Len(phaseTimeline) > 0
    /\ LastPhase.status = "completed"
    /\ \A j \in 1..Len(LastPhase.files) : LastPhase.files[j].status = "completed"

\* C4: ActivityState is never validating_phase while the file list is
\* empty.
C4_ValidatingHasFiles ==
    activityState.type = "validating_phase" => Len(files) > 0

\* phase_validating was accepted and moved the state to validating_phase
C4_Witness ==
    /\ lastMsg.type = "phase_validating" /\ lastMsg.valid
    /\ activityState.type = "validating_phase"
    /\ Len(files) > 0

\* C5 (as stated): validating_phase is not entered while some file is still
\* being generated.
C5_NoValidationWhileGenerating ==
    [][(MessageStep /\ activityState'.type = "validating_phase"
          /\ activityState.type /= "validating_phase")
          => ~AnyGenerating(files')]_vars

\* C6 (as stated): thinking_next_phase is not entered while the last phase
\* of the timeline has a status other than completed.
C6_NoPlanningBeforeCompleted ==
    [][(MessageStep /\ activityState'.type = "thinking_next_phase"
          /\ activityState.type /= "thinking_next_phase")
          => (Len(phaseTimeline') = 0
                \/ phaseTimeline'[Len(phaseTimeline')].status = "completed")]_vars

\* The precondition of a phase-scoped message is unmet in the current state
PreconditionUnmet(messageType) ==
    \/ messageType = "generation_started" /\ blueprint = Undefined
    \/ messageType = "phase_validating" /\ Len(files) = 0
    \/ messageType = "phase_implemented" /\ AnyGenerating(files)

\* C7: a phase-scoped message whose precondition is unmet is rejected, and
\* a rejected message changes nothing: files, phase timeline, project
\* stages, chat messages, ActivityState and every other piece of session
\* state stay as they were, so nothing of the message is kept to be applied
\* later.
C7_RejectedHasNoEffect ==
    [][(MessageStep /\ (PreconditionUnmet(lastMsg'.type) \/ ~lastMsg'.valid))
          => /\ ~lastMsg'.valid
             /\ UNCHANGED <<urlChatId, refreshVars, pc, activityState, files, phaseTimeline,
                            projectStages, messages, blueprint,
                            isRedeployReady, previewUrl, stoppedFrom>>]_vars

\* phase_implemented was rejected while a file was generating
C7_Witness ==
    /\ lastMsg = [type |-> "phase_implemented", valid |-> FALSE]
    /\ AnyGenerating(files)
    /\ "phase_implemented" \notin messages

\* C8 (as stated): when generation_resumed is handled after a
\* generation_stopped, the resulting ActivityState is the state that was
\* active when the stop was handled.
C8_ResumeRestoresPrePause ==
    [][(MessageStep /\ lastMsg'.type = "generation_resumed"
          /\ stoppedFrom /= NoState)
          => activityState' = stoppedFrom]_vars

ActivitySettingMessages ==
    {"generation_started", "generation_complete", "deployment_started",
     "deployment_completed", "deployment_failed", "phase_generating",
     "phase_generated", "phase_implementing", "phase_validating",
     "phase_validated", "phase_implemented", "generation_stopped",
     "generation_resumed"}

-----------------------------------------------------------------------------
(* The smart enhancement cycle: what the log of a cycle shows *)

IsSave(e) == e.op = "save"
IsDeploy(e) == e.op = "deploy"
IsEnhancing(e) == e.op = "broadcast" /\ e.type = "FILE_ENHANCING"
IsEnhanced(e) == e.op = "broadcast" /\ e.type = "FILE_ENHANCED"
IsSummary(e) == e.op = "broadcast" /\ e.type = "SMART_ENHANCED"

FilePathsOf(entries) == [i \in 1..Len(entries) |-> entries[i].payload.filePath]

\* The paths dispatched to SmartFileEnhancementOperation, saved, deployed
Dispatched == FilePathsOf(SelectSeq(log, IsEnhancing))
Saved == FilePathsOf(SelectSeq(log, IsSave))
Deploys == SelectSeq(log, IsDeploy)
Summaries == SelectSeq(log, IsSummary)

\* smartEnhancementCycle has run, and its review did not throw
CycleRan == enhanceInput /= NoInput /\ ~enhanceInput.reviewThrows

\* The dispatched paths whose enhancement succeeded, in dispatch order
RECURSIVE Picked(_, _, _)
Picked(sq, S, i) ==
    IF i > Len(sq) THEN <<>>
    ELSE (IF i \in S THEN <<sq[i]>> ELSE <<>>) \o Picked(sq, S, i + 1)

Succeeded == Picked(Dispatched, enhanceInput.fulfilled, 1)

\* C11: in a batch of K dispatched files of which M succeed, 1 <= M < K,
\* the cycle does not throw: executeReviewCycle returns, exactly the M
\* successful results are saved and deployed, in dispatch order, and the
\* summary reports filesEnhanced = M.
C11_PartialFailureKeepsSuccesses ==
    (/\ CycleRan
     /\ Len(Succeeded) >= 1
     /\ Len(Succeeded) < Len(Dispatched))
    => /\ cyclePc = "returned"
       /\ Saved = Succeeded
       /\ Len(Deploys) = 1
       /\ Deploys[1].payload.files = Succeeded
       /\ Len(Summaries) = 1
       /\ Summaries[1].payload.filesEnhanced = Len(Succeeded)

\* Three files were dispatched, the second enhancement failed
C11_Witness ==
    /\ CycleRan
    /\ cyclePc = "returned"
    /\ Len(Dispatched) = 3
    /\ enhanceInput.fulfilled = {1, 3}

\* C12: an enhancement cycle issues at most one sandbox deployment: exactly
\* one, covering all the successfully enhanced files and placed after every
\* save, when an enhancement succeeded, and none otherwise.
C12_OneDeploymentPerCycle ==
    /\ Len(Deploys) <= 1
    /\ (CycleRan /\ Len(Succeeded) >= 1) =>
          /\ Len(Deploys) = 1
          /\ Deploys[1].payload.files = Succeeded
          /\ \A i, j \in 1..Len(log) :
                 (IsDeploy(log[i]) /\ IsSave(log[j])) => j < i
    /\ (CycleRan /\ Len(Succeeded) = 0) => Len(Deploys) = 0

\* Two enhancements succeeded and the cycle returned
C12_Witness ==
    /\ CycleRan
    /\ cyclePc = "returned"
    /\ Len(Succeeded) = 2
    /\ Len(Saved) = 2

\* C13: when the review finds no enhancements, or no listed path resolves
\* to a file, or every enhancement fails, the cycle has no effect: no file
\* is saved, nothing is deployed, no FILE_ENHANCED and no summary event is
\* emitted, the File Manager is as it was, and executeReviewCycle returns
\* the base cycle's result.
C13_SilentExit ==
    (/\ CycleRan
     /\ \/ ~enhanceInput.review.enhancementsFound
        \/ Len(Dispatched) = 0
        \/ enhanceInput.fulfilled = {})
    => /\ Len(Saved) = 0
       /\ Len(Deploys) = 0
       /\ Len(SelectSeq(log, IsEnhanced)) = 0
       /\ Len(Summaries) = 0
       /\ \A p \in DOMAIN fileManager : fileManager[p] = "generated"
       /\ cyclePc = "returned"
       /\ returned = result

\* Files were dispatched and every enhancement failed
C13_Witness ==
    /\ CycleRan
    /\ cyclePc = "returned"
    /\ Len(Dispatched) >= 2
    /\ enhanceInput.fulfilled = {}
    /\ returned = result

\* C14: a failure of an operation inside the enhancement stage never
\* escapes executeReviewCycle: when smartCodeReview.execute throws,
\* executeReviewCycle still returns the base review cycle's result.
C14_FailureNeverEscapes ==
    (enhanceInput /= NoInput /\ enhanceInput.reviewThrows)
    => (cyclePc = "returned" /\ returned = result)

\* C15: the enhancement cycle starts only in smart mode and only after the
\* base review cycle has finished with a clean result.
C15_OnlyAfterCleanInSmartMode ==
    (cyclePc = "enhancing" \/ enhanceInput /= NoInput)
    => (agentMode = "smart" /\ result = "clean")

\* C16: within one enhancement cycle each file path is dispatched to
\* SmartFileEnhancementOperation at most once.
C16_EachPathDispatchedOnce ==
    \A i, j \in 1..Len(Dispatched) :
        Dispatched[i] = Dispatched[j] => i = j

\* The paths a review result lists, resolved against the session's files
RECURSIVE AffectedFiles(_)
AffectedFiles(patterns) ==
    IF patterns = <<>> THEN <<>>
    ELSE Head(patterns).affectedFiles \o AffectedFiles(Tail(patterns))

IsSessionFile(p) == p \in Paths
ResolvesToFile(f) == f.filePath \in Paths
ResolvesAndRequiresChanges(f) == f.filePath \in Paths /\ f.requireCodeChanges

ResolvedPatternPaths ==
    SelectSeq(AffectedFiles(enhanceInput.review.systematicPatterns),
              IsSessionFile)

EntryPaths(entries) == [i \in 1..Len(entries) |-> entries[i].filePath]

\* C17 as stated: every pattern-affected path and every individual entry
\* that resolves to a file is dispatched, missing paths being skipped.
C17_EveryResolvedEntryDispatched ==
    CycleRan =>
        Dispatched = ResolvedPatternPaths
            \o EntryPaths(SelectSeq(enhanceInput.review.filesToEnhance,
                                    ResolvesToFile))

\* C17: when the review reports enhancementsFound, every pattern-affected
\* path that resolves to a file, and every individual entry that has
\* requireCodeChanges and resolves to a file, is dispatched, in that order;
\* a path that is not found is skipped and the rest of the batch is kept.
C17_ResolvedAndRequiredDispatched ==
    (CycleRan /\ enhanceInput.review.enhancementsFound) =>
        Dispatched = ResolvedPatternPaths
            \o EntryPaths(SelectSeq(enhanceInput.review.filesToEnhance,
                                    ResolvesAndRequiresChanges))

\* A pattern and the individual list both named a missing path, and the
\* files after it were dispatched
C17_Witness ==
    /\ CycleRan
    /\ enhanceInput.review.enhancementsFound
    /\ enhanceInput.review.systematicPatterns
           = <<[affectedFiles |-> <<"gone.ts", "a.ts">>]>>
    /\ Len(enhanceInput.review.filesToEnhance) = 2
    /\ Dispatched = <<"a.ts", "b.ts">>

\* C18: a cycle in which an enhancement succeeded emits a single summary
\* event that carries the number of patterns applied and the numbers of
\* files enhanced and failed, enhanced + failed being the number dispatched.
C18_SummaryCountsEnhancedAndFailed ==
    (CycleRan /\ Len(Succeeded) >= 1) =>
        /\ Len(Summaries) = 1
        /\ "patternsApplied" \in DOMAIN Summaries[1].payload
        /\ "filesEnhanced" \in DOMAIN Summaries[1].payload
        /\ "filesFailed" \in DOMAIN Summaries[1].payload
        /\ Summaries[1].payload.filesEnhanced + Summaries[1].payload.filesFailed
               = Len(Dispatched)

-----------------------------------------------------------------------------
(* Deployment *)

TimeoutFires ==
    /\ deploymentTimeout.armed
    /\ ~deploymentTimeout'.armed
    /\ handled' = handled

\* C20: no deployment stays in progress forever: whenever isDeploying is
\* true it eventually becomes false, and a timeout that fires while
\* isDeploying is true resets the flag.
C20_DeployingEventuallyReset ==
    /\ [][(TimeoutFires /\ isDeploying) => ~isDeploying']_vars
    /\ (isDeploying ~> ~isDeploying)

\* The handler has just handled a valid message of the type
JustHandled(messageType) ==
    /\ MessageStep
    /\ lastMsg'.type = messageType
    /\ lastMsg'.valid

\* C21 as stated: after deployment_failed or cloudflare_deployment_error
\* the ActivityState is not deploying_preview, isDeploying is false,
\* redeploy is enabled, and files, phase timeline and blueprint are
\* unchanged.
C21_EveryFailureClearsEverything ==
    [][(JustHandled("deployment_failed")
          \/ JustHandled("cloudflare_deployment_error"))
       => /\ activityState' /= DeployingPreview
          /\ ~isDeploying'
          /\ isRedeployReady'
          /\ UNCHANGED <<files, phaseTimeline, blueprint>>]_vars

\* C21: a deployment failure is never fatal to the session.  After
\* deployment_failed the ActivityState is idle; after
\* cloudflare_deployment_error isDeploying is false and redeploy is
\* enabled; each leaves files, phase timeline, blueprint and the connection
\* as they were, and leaves the other deployment's indication alone.
C21_FailureKeepsSession ==
    [][/\ JustHandled("deployment_failed")
          => /\ activityState' = Idle
             /\ UNCHANGED <<files, phaseTimeline, blueprint, pc>>
             /\ UNCHANGED <<isDeploying, isRedeployReady>>
       /\ JustHandled("cloudflare_deployment_error")
          => /\ ~isDeploying'
             /\ isRedeployReady'
             /\ UNCHANGED <<files, phaseTimeline, blueprint, pc>>
             /\ UNCHANGED activityState]_vars

\* A preview deployment has failed while a Cloudflare deployment is running
C21_Witness ==
    /\ lastMsg.type = "deployment_failed"
    /\ activityState = Idle
    /\ isDeploying

\* The waits of the specification, in seconds, for the 1st to 5th failure
Backoff == <<2, 4, 8, 16, 30>>

FailureStep ==
    /\ shouldReconnect /\ shouldReconnect'
    /\ connectAttemptId > 0
    /\ connectAttemptId' = connectAttemptId
    /\ sockets'[connectAttemptId] /= sockets[connectAttemptId]
    /\ sockets'[connectAttemptId].readyState \in {"failing", "closing", "closed"}

\* The terminal error has been shown to the user
TerminalError == "websocket_failed" \in messages

\* C23: retryCount never exceeds maxRetries = 5; each of the first five
\* consecutive failures schedules a redial; the sixth schedules none, marks
\* the connection failed and shows the terminal error; and once the terminal
\* error has been shown no further connection attempt is started.
C23_AtMostFiveRetries ==
    /\ [](retryCount <= maxRetries /\ Len(retryTimeouts) <= maxRetries)
    /\ [][FailureStep =>
            IF retryCount < maxRetries
            THEN /\ retryCount' = retryCount + 1
                 /\ Len(retryTimeouts') = Len(retryTimeouts) + 1
                 /\ retryTimeouts'[Len(retryTimeouts')].state = "pending"
            ELSE /\ retryTimeouts' = retryTimeouts
                 /\ connectionStatus' = "failed"
                 /\ TerminalError']_vars
    /\ [][TerminalError => connectAttemptId' = connectAttemptId]_vars

\* An event of a superseded attempt: the socket of an older attempt opens,
\* fails or closes, or a message arrives on it
StaleEvent ==
    \/ \E ws \in 1..(connectAttemptId - 1) :
          sockets'[ws].readyState /= sockets[ws].readyState
    \/ /\ Len(arrived') = Len(arrived) + 1
       /\ arrived'[Len(arrived')].from < connectAttemptId

\* C24: connection attempt ids strictly increase, and an event of a
\* superseded attempt changes no client state, handles and queues no
\* message and schedules no retry.
C24_StaleEventsIgnored ==
    /\ [][/\ connectAttemptId' >= connectAttemptId
          /\ Len(sockets') > Len(sockets)
               => connectAttemptId' = connectAttemptId + 1]_vars
    /\ [][StaleEvent =>
            /\ UNCHANGED <<clientVars, connectionStatus, retryCount,
                           retryTimeouts>>
            /\ UNCHANGED <<messageQueue, handledLog>>]_vars

\* The commands sent on the socket of attempt ws before its i-th command
SentBefore(ws, i) == {sockets[ws].sent[j] : j \in 1..(i - 1)}

\* C25: on every successful connect or reconnect the first command sent on
\* the connection is get_conversation_state, and no generate_all is sent on
\* a connection before the get_conversation_state of that connection.
C25_StateRequestedFirst ==
    /\ connectionStatus = "connected"
         => /\ sockets[connectAttemptId].sent /= <<>>
            /\ sockets[connectAttemptId].sent[1] = "get_conversation_state"
    /\ \A ws \in 1..connectAttemptId :
          \A i \in 1..Len(sockets[ws].sent) :
              sockets[ws].sent[i] = "generate_all"
                  => "get_conversation_state" \in SentBefore(ws, i)

\* The commands of the kind sent on the socket of attempt ws
NumSentIn(socks, ws, command) ==
    Cardinality({i \in 1..Len(socks[ws].sent) : socks[ws].sent[i] = command})

NumSent(ws, command) == NumSentIn(sockets, ws, command)

RECURSIVE SumSent(_, _)
SumSent(n, command) ==
    IF n = 0 THEN 0 ELSE NumSent(n, command) + SumSent(n - 1, command)

\* The cf_agent_state messages with shouldBeGenerating = true handled so far
NumResumes ==
    Cardinality({i \in 1..Len(handledLog) : handledLog[i].shouldBeGenerating})

\* The handler is called with a message
HandlerStep == Len(handledLog') = Len(handledLog) + 1

\* The open event of the current attempt is accepted
OpenAccepted ==
    /\ connectAttemptId > 0
    /\ connectAttemptId' = connectAttemptId
    /\ sockets[connectAttemptId].readyState = "connecting"
    /\ sockets'[connectAttemptId].readyState = "open"

\* C26 as stated: in an existing session the client sends no generate_all.
C26_ClientSendsNoGenerateAll ==
    urlChatId = "existing" => SumSent(connectAttemptId, "generate_all") = 0

\* C26: in an existing session the open handler sends get_conversation_state
\* and no generate_all; when a cf_agent_state with shouldBeGenerating = true
\* is handled the client marks the code stage active and itself sends
\* generate_all on the socket the handler was given, if that socket is open;
\* it sends generate_all for no other reason, so no user action is involved.
C26_ClientResumesOnAgentState ==
    /\ [](urlChatId = "existing"
            => SumSent(connectAttemptId, "generate_all") <= NumResumes)
    /\ [][(urlChatId = "existing" /\ OpenAccepted)
            => sockets'[connectAttemptId].sent
                 = <<"get_conversation_state">>]_vars
    /\ [][(urlChatId = "existing" /\ HandlerStep)
            => LET call == handledLog'[Len(handledLog')] IN
               IF call.shouldBeGenerating
               THEN /\ projectStages'["code"] = "active"
                    /\ sockets[call.ws].readyState = "open"
                         => NumSentIn(sockets', call.ws, "generate_all")
                              = NumSent(call.ws, "generate_all") + 1
               ELSE \A ws \in 1..connectAttemptId :
                        NumSentIn(sockets', ws, "generate_all")
                          = NumSent(ws, "generate_all")]_vars

\* An existing session has reconnected, the server has reported
\* shouldBeGenerating = true on the new connection and the client has sent
\* generate_all on it
C26_Witness ==
    /\ urlChatId = "existing"
    /\ connectAttemptId >= 2
    /\ sockets[connectAttemptId].isRetry
    /\ \E i \in 1..Len(handledLog) :
          /\ handledLog[i].shouldBeGenerating
          /\ handledLog[i].ws = connectAttemptId
    /\ sockets[connectAttemptId].sent
         = <<"get_conversation_state", "preview", "generate_all">>
    /\ projectStages["code"] = "active"

\* The handler is called with a cf_agent_state that reports
\* shouldBeGenerating = true and that arrived on the current connection, a
\* connection that was re-established and is open
ResumeReported ==
    /\ HandlerStep
    /\ LET call == handledLog'[Len(handledLog')] IN
       /\ call.shouldBeGenerating
       /\ arrived'[call.id].from = connectAttemptId
    /\ sockets[connectAttemptId].isRetry
    /\ sockets[connectAttemptId].readyState = "open"

\* C27: a mid-generation disconnect cannot stall progress.  Every message
\* received is eventually handled, and when the cf_agent_state of a
\* re-established connection reports shouldBeGenerating = true the code
\* stage becomes active and generation is resumed: generate_all is sent on
\* that connection.
C27_ReconnectResumesGeneration ==
    /\ [][ResumeReported =>
            /\ projectStages'["code"] = "active"
            /\ NumSentIn(sockets', connectAttemptId, "generate_all")
                 = NumSent(connectAttemptId, "generate_all") + 1]_vars
    /\ \A id \in 1..MaxArrivals :
          (Len(arrived) >= id) ~> (Len(handledLog) >= id)

-----------------------------------------------------------------------------
(* The File Manager after concurrent enhancements of one path *)

\* The enhancements of path p that succeeded, as indices of the promises
WritesOf(p) == {i \in enhanceInput.fulfilled : Dispatched[i] = p}

\* The write of path p that was saved last, 0 when nothing was saved for p
LastWrite(p) ==
    IF WritesOf(p) = {} THEN 0
    ELSE CHOOSE i \in WritesOf(p) : \A j \in WritesOf(p) : j <= i

\* C29: after any sequence of saves, also of the results of enhancements of
\* one path that ran concurrently, the File Manager holds one record for
\* each path, and its contents are those of the write of that path that
\* completed last, whole: the contents generated when no enhancement of
\* the path was saved.
C29_LastCompletedWriteWins ==
    CycleRan =>
        /\ DOMAIN fileManager = Paths
        /\ \A p \in Paths :
              fileManager[p] =
                  IF LastWrite(p) = 0 THEN "generated"
                  ELSE enhancedFile(Dispatched, LastWrite(p)).fileContents

\* Two enhancements of one path both succeeded and both were saved; the
\* File Manager holds the contents of the second
C29_Witness ==
    /\ CycleRan
    /\ cyclePc = "returned"
    /\ \E p \in Paths :
          /\ Cardinality(WritesOf(p)) >= 2
          /\ Len(SelectSeq(Saved, LAMBDA q : q = p)) >= 2
          /\ fileManager[p] = "enhanced " \o ToString(LastWrite(p))


-----------------------------------------------------------------------------
(* Completed phases of the timeline *)

\* The phase at position i of the timeline is completed
PhaseCompleted(i) == phaseTimeline[i].status = "completed"

\* The step leaves phase i as it is: its status and the status of its files
PhaseKept(i) ==
    /\ i <= Len(phaseTimeline')
    /\ phaseTimeline'[i].name = phaseTimeline[i].name
    /\ phaseTimeline'[i].status = phaseTimeline[i].status
    /\ phaseTimeline'[i].files = phaseTimeline[i].files

\* The messages that arrive after a phase is completed
LaterMessages ==
    {"phase_validating", "phase_implemented", "file_regenerating",
     "phase_implementing"}

\* The step handles one of the later messages
LaterMessageStep == handled' = handled + 1 /\ lastMsg'.type \in LaterMessages

\* C30: a phase is immutable once completed: no later message
\* (phase_validating, a phase_implemented meant for another phase,
\* file_regenerating, a repeated phase_implementing) changes the status of
\* a completed phase or the status of any of its files.
C30_CompletedPhaseImmutable ==
    [][LaterMessageStep =>
          \A i \in 1..Len(phaseTimeline) : PhaseCompleted(i) => PhaseKept(i)]_vars


-----------------------------------------------------------------------------
(* The report of code_reviewing and the fix stage *)

\* Handling a report with these counts leaves the fix stage active exactly
\* when the report holds an issue of any of the four kinds
FixSignalledIffIssues(lint, typecheck, runtime, client) ==
    (CodeReviewing(lint, typecheck, runtime, client)
        /\ projectStages["fix"] /= "active")
    => (projectStages'["fix"] = "active"
            <=> lint + typecheck + runtime + client > 0)

\* C31: a fix cycle is signalled as warranted (the fix stage is set active
\* when a code_reviewing report is handled) if and only if totalIssues > 0,
\* where totalIssues counts the lint issues, the type issues, the runtime
\* errors and the client errors of the report.
C31_FixWarrantedIffIssues ==
    [][\A l, t, r, c \in 0..1 : FixSignalledIffIssues(l, t, r, c)]_vars


-----------------------------------------------------------------------------
(* The analysis strategy of the quality review *)

\* The strategy table: individual analysis (small) below 20 files, hybrid
\* (medium) from 20 to 49, pattern-batch (large) from 50
StrategyOf(n) ==
    IF n < 20 THEN "small" ELSE IF n < 50 THEN "medium" ELSE "large"

\* C32: for every file count n the size category SmartCodeReviewOperation
\* computes is individual for n < 20, hybrid for 20 <= n < 50 and
\* pattern-batch for n >= 50, the boundaries 19, 20, 49, 50, 51 included.
C32_StrategyByScale ==
    userPrompt /= NoPrompt =>
        userPrompt.sizeCategory = StrategyOf(userPrompt.fileCount)


-----------------------------------------------------------------------------
(* Phase messages delivered more than once *)

\* The client state a message handler writes: everything but the history
\* of the messages handled
clientState ==
    <<activityState, files, phaseTimeline, projectStages, messages, blueprint,
      isRedeployReady, previewUrl, isDeploying, shouldRefreshPreview,
      refreshTimers>>

\* Handling the message of the step once more, in the state the step
\* leaves, changes nothing of the client state
PhaseImplementingIdempotent(phase) ==
    PhaseImplementing(phase) =>
        ~(ENABLED (PhaseImplementing(phase) /\ clientState' /= clientState))'

PhaseValidatingIdempotent ==
    PhaseValidating =>
        ~(ENABLED (PhaseValidating /\ clientState' /= clientState))'

PhaseValidatedIdempotent ==
    PhaseValidated =>
        ~(ENABLED (PhaseValidated /\ clientState' /= clientState))'

PhaseImplementedIdempotent(hasPhase) ==
    PhaseImplemented(hasPhase) =>
        ~(ENABLED (PhaseImplemented(hasPhase) /\ clientState' /= clientState))'

\* The phase timeline holds no two entries of one name
UniquePhaseNames ==
    \A i, j \in 1..Len(phaseTimeline) :
        phaseTimeline[i].name = phaseTimeline[j].name => i = j

\* C33: handling a duplicate of a phase message (phase_implementing,
\* phase_validating, phase_validated, phase_implemented) leaves the client
\* state equal to the state after handling it once, and the phase timeline
\* never holds two entries with the same phase name.
C33_PhaseMessagesIdempotent ==
    [][/\ \A phase \in PhaseInputs \cup {NoPhase} :
             PhaseImplementingIdempotent(phase)
       /\ PhaseValidatingIdempotent
       /\ PhaseValidatedIdempotent
       /\ \A hasPhase \in BOOLEAN : PhaseImplementedIdempotent(hasPhase)
       /\ UniquePhaseNames']_vars


-----------------------------------------------------------------------------
(* Retries of one failed connection attempt *)

\* C34: one failed connection attempt causes exactly one retry: also when
\* the attempt raises an error and a close event, or a connect timeout and
\* then the close of its socket, retryCount is incremented once for the
\* attempt, and at most one reconnect timer is pending at any time.
C34_OneRetryPerFailedAttempt ==
    /\ retryCount <= connectAttemptId
    /\ Cardinality(PendingRetries) <= 1


-----------------------------------------------------------------------------
(* The message queue when a handler throws *)

\* C35: the message queue never stalls: every message placed in the queue
\* is eventually handled and the processing flag always returns to false,
\* also when the handling of an earlier message throws.  While the flag is
\* set a THROTTLE_MS wait runs whose end resets it.
C35_QueueNeverStalls ==
    /\ [](processing => throttles > 0)
    /\ processing ~> ~processing
    /\ \A id \in 1..MaxArrivals :
          (Len(arrived) >= id) ~> (Len(handledLog) >= id)


-----------------------------------------------------------------------------
(* The phase a phase event names *)

\* The timeline has an entry for the phase of this name
InTimeline(name) == \E i \in 1..Len(phaseTimeline) : phaseTimeline[i].name = name

\* The step changes no entry of the timeline but the one of this name
OnlyPhaseChanges(name) ==
    /\ Len(phaseTimeline') = Len(phaseTimeline)
    /\ \A i \in 1..Len(phaseTimeline) :
          phaseTimeline[i].name /= name => phaseTimeline'[i] = phaseTimeline[i]

\* A phase_validating or a phase_implemented with a phase is accepted.  The
\* handler reads the phase of the message only to see that there is one, so
\* the step is the same whichever phase the message names.
PhaseEventStep ==
    /\ PhaseValidating \/ PhaseImplemented(TRUE)
    /\ lastMsg'.valid

\* C36: a phase event updates the phase it names: phase_validating and
\* phase_implemented for phase P change the status of the timeline entry
\* named P and of no other entry, whatever entry is last in the timeline.
C36_PhaseEventUpdatesNamedPhase ==
    [][\A name \in PhaseNames :
          (PhaseEventStep /\ InTimeline(name)) => OnlyPhaseChanges(name)]_vars


-----------------------------------------------------------------------------
(* Pauses of a paused session *)

\* C37: Paused never wraps Paused: in every reachable state whose
\* ActivityState is paused, pausedFrom is a state that is not paused, so
\* that a repeated generation_stopped does not nest and one
\* generation_resumed leaves the paused state.
C37_PausedNeverWrapsPaused ==
    activityState.type = "paused" => activityState.pausedFrom.type /= "paused"


-----------------------------------------------------------------------------
(* cf_agent_state and the data the client already holds *)

\* What the initial restoration of cf_agent_state writes from the snapshot
restored == <<blueprint, files, phaseTimeline>>

\* A cf_agent_state can be handled that restores data from its snapshot
RestorationEnabled ==
    ENABLED (\E state \in AgentStates :
                 CfAgentState(state) /\ restored' /= restored)

\* Handling this snapshot leaves the items the client holds as they are,
\* and after it no cf_agent_state restores from a snapshot again
SnapshotKeepsLiveData(state) ==
    CfAgentState(state) =>
        /\ files /= <<>> => files' = files
        /\ phaseTimeline /= <<>> => phaseTimeline' = phaseTimeline
        /\ blueprint /= Undefined => blueprint' = blueprint
        /\ ~RestorationEnabled'

\* C38: a cf_agent_state snapshot never overwrites live client data: a
\* non-empty file list, a non-empty phase timeline and a blueprint that the
\* client holds are left unchanged, and the initial restoration is
\* performed at most once per session view.
C38_SnapshotNeverOverwrites ==
    [][\A state \in AgentStates : SnapshotKeepsLiveData(state)]_vars


-----------------------------------------------------------------------------
(* The order of the events of one enhancement cycle *)

\* The place of an entry of the log in the order of the cycle
StepOf(e) ==
    CASE e.op = "broadcast" /\ e.type = "SMART_REVIEWING" -> 1
      [] e.op = "broadcast" /\ e.type = "SMART_REVIEWED" -> 2
      [] IsEnhancing(e) -> 3
      [] IsSave(e) \/ IsEnhanced(e) -> 4
      [] IsDeploy(e) -> 5
      [] IsSummary(e) -> 6

\* C39: within one enhancement cycle the events come in the order
\* SMART_REVIEWING, SMART_REVIEWED, all FILE_ENHANCING, all FILE_ENHANCED,
\* the deployment, SMART_ENHANCED.  Every FILE_ENHANCED for a path follows
\* the save of that path and a FILE_ENHANCING for it, no file is saved
\* before every enhancement has been dispatched and has settled, and
\* SMART_ENHANCED comes only after the deployment.
C39_CycleEventOrder ==
    /\ \A i, j \in 1..Len(log) : i < j => StepOf(log[i]) <= StepOf(log[j])
    /\ Len(log) >= 1 => StepOf(log[1]) = 1
    /\ \A i \in 1..Len(log) :
          /\ StepOf(log[i]) \in {1, 2} =>
                \A j \in 1..Len(log) : StepOf(log[j]) = StepOf(log[i]) => j = i
          /\ IsEnhanced(log[i]) =>
                /\ i > 1 /\ IsSave(log[i - 1])
                /\ log[i - 1].payload.filePath = log[i].payload.filePath
                /\ \E j \in 1..(i - 1) :
                      /\ IsEnhancing(log[j])
                      /\ log[j].payload.filePath = log[i].payload.filePath
          /\ IsSave(log[i]) =>
                /\ i < Len(log) /\ IsEnhanced(log[i + 1])
                /\ Len(SelectSeq(SubSeq(log, 1, i), IsEnhancing))
                     = Len(Dispatched)
          /\ IsSummary(log[i]) =>
                /\ i = Len(log)
                /\ i > 1 /\ IsDeploy(log[i - 1])

\* A cycle in which two enhancements were dispatched and one of them
\* failed: the other was saved and deployed, and the summary was sent
C39_Witness ==
    /\ CycleRan
    /\ Len(Dispatched) >= 2
    /\ Len(Succeeded) >= 1
    /\ Len(Succeeded) < Len(Dispatched)
    /\ Len(Deploys) = 1
    /\ IsSummary(log[Len(log)])


-----------------------------------------------------------------------------
(* The connection after the unmount of the hook *)

\* The hook has been unmounted
Unmounted == ~shouldReconnect

\* C40: after the chat hook is unmounted no reconnect is scheduled or
\* performed: no retry timer is pending, a later close, error, open or
\* connect timeout of any socket schedules no retry, and no connection is
\* left open.
C40_NoReconnectAfterUnmount ==
    Unmounted =>
        /\ PendingRetries = {}
        /\ \A ws \in 1..Len(sockets) : sockets[ws].readyState /= "open"

=============================================================================
